---- MODULE Spec2Model ----
(***************************************************************************)
(* Model of the scraping substrate (rate limiter, circuit breaker, retry   *)
(* policy), the scheduler jobs that drive it, and the alert engine.        *)
(* Time is counted in ticks of a tenth of a second, the resolution of the  *)
(* rate limiter's sleep.                                                   *)
(***************************************************************************)
EXTENDS Integers, Sequences, FiniteSets, TLC

\* ------------------------------------------------------------------ bounds
MaxTicks == 2

\* ------------------------------------------------------- program constants
TicksPerSecond == 10
failure_threshold == 10
reset_timeout == 300
requests_per_minute == 30
MAX_RETRIES == 3
\* WebhookChannel.__init__(retries=3)
retries == 3

Minute == 60 * TicksPerSecond
\* how far the clock may move in one step: a second, or the breaker's timeout
Delays == {TicksPerSecond, reset_timeout * TicksPerSecond}
\* random.uniform(0, 1), at its two ends
Jitter == {0, TicksPerSecond}

\* ------------------------------------------------------------- dictionaries
Get(d, k, default) == IF k \in DOMAIN d THEN d[k] ELSE default
Put(d, k, v) == [x \in (DOMAIN d) \cup {k} |-> IF x = k THEN v ELSE d[x]]
Del(d, k) == [x \in (DOMAIN d) \ {k} |-> d[x]]
EmptyDict == [x \in {} |-> 0]

\* ------------------------------------------------------------ the job table
ScheduledJobs ==
    { "job_amazon_discover", "job_amazon_metrics",
      "job_flipkart_discover", "job_flipkart_metrics",
      "job_ebay_discover", "job_ebay_metrics",
      "job_walmart_discover", "job_walmart_metrics" }

DiscoverJobs ==
    { "job_amazon_discover", "job_flipkart_discover",
      "job_ebay_discover", "job_walmart_discover" }

\* the platform argument the job passes to discover_products / collect_metrics
JobPlatform(j) ==
    CASE j \in {"job_amazon_discover", "job_amazon_metrics"} -> "amazon_us"
      [] j \in {"job_flipkart_discover", "job_flipkart_metrics"} -> "flipkart_in"
      [] j \in {"job_ebay_discover", "job_ebay_metrics"} -> "ebay"
      [] j \in {"job_walmart_discover", "job_walmart_metrics"} -> "walmart"

\* the scraper class the job passes
JobScraper(j) ==
    CASE j \in {"job_amazon_discover", "job_amazon_metrics"} -> "AmazonScraper"
      [] j \in {"job_flipkart_discover", "job_flipkart_metrics"} -> "FlipkartScraper"
      [] j \in {"job_ebay_discover", "job_ebay_metrics"} -> "EbayScraper"
      [] j \in {"job_walmart_discover", "job_walmart_metrics"} -> "WalmartScraper"

\* the class attribute PLATFORM: set by the eBay and Walmart scrapers, inherited
\* from BaseScraper by the Amazon and Flipkart scrapers
PLATFORM(scraper_class) ==
    CASE scraper_class = "EbayScraper" -> "ebay_us"
      [] scraper_class = "WalmartScraper" -> "walmart_us"
      [] OTHER -> "unknown"

\* the jobs the model runs, each as a task of its own: a discovery job and a
\* metrics job of two platforms, which may run at the same time
Tasks == {"job_amazon_discover", "job_flipkart_metrics"}

\* a discovery job walks its category list; the model gives it one category
Categories == {"Electronics"}

\* how many URLs a job run is given to scrape: the new products on a
\* bestseller page, the stored products of a platform
UrlCounts == {0, 1}

Keys ==
    {JobPlatform(j) : j \in Tasks} \cup {PLATFORM(JobScraper(j)) : j \in Tasks}

\* ------------------------------------------------------------ CircuitBreaker
\* a breaker is [failures |-> dict, open_circuits |-> dict]
\* the slip of resetting at the timeout instead of after it
is_open_expired_at_timeout(cb, platform, t) ==
    /\ platform \in DOMAIN cb.open_circuits
    /\ t - cb.open_circuits[platform] >= reset_timeout * TicksPerSecond

is_open_expired(cb, platform, t) ==
    /\ platform \in DOMAIN cb.open_circuits
    /\ t - cb.open_circuits[platform] > reset_timeout * TicksPerSecond

\* the value is_open returns
is_open(cb, platform, t) ==
    /\ platform \in DOMAIN cb.open_circuits
    /\ ~is_open_expired(cb, platform, t)

\* the breaker is_open leaves behind
is_open_reset(cb, platform, t) ==
    IF is_open_expired(cb, platform, t)
    THEN [failures |-> Put(cb.failures, platform, 0),
          open_circuits |-> Del(cb.open_circuits, platform)]
    ELSE cb

\* the slip of opening one failure late
record_failure_above_threshold(cb, platform, t) ==
    LET n == Get(cb.failures, platform, 0) + 1
    IN [failures |-> Put(cb.failures, platform, n),
        open_circuits |-> IF n > failure_threshold
                          THEN Put(cb.open_circuits, platform, t)
                          ELSE cb.open_circuits]

record_failure(cb, platform, t) ==
    LET n == Get(cb.failures, platform, 0) + 1
    IN [failures |-> Put(cb.failures, platform, n),
        open_circuits |-> IF n >= failure_threshold
                          THEN Put(cb.open_circuits, platform, t)
                          ELSE cb.open_circuits]

record_success(cb, platform) ==
    [failures |-> Put(cb.failures, platform, 0),
     open_circuits |-> Del(cb.open_circuits, platform)]

\* --------------------------------------------------------------- RateLimiter
\* a limiter is [request_times |-> sequence of times]
acquire_clean(rl, t) ==
    [request_times |-> SelectSeq(rl.request_times, LAMBDA x : x > t - Minute)]

\* ticks acquire sleeps for, entered at t with the window already cleaned
acquire_sleep(rl, t) ==
    IF Len(rl.request_times) >= requests_per_minute
    THEN LET wait_time == rl.request_times[1] - (t - Minute)
         IN IF wait_time > 0 THEN wait_time + 1 ELSE 0
    ELSE 0

acquire_append(rl, t) ==
    [request_times |-> Append(rl.request_times, t)]

\* the slip of a loop that goes round once more
more_attempts_one_more(attempt) == attempt + 1 <= MAX_RETRIES

\* whether the retry loop goes round again after a failed attempt
more_attempts(attempt) == attempt + 1 < MAX_RETRIES

\* whether the except branch sleeps after a failed attempt
backs_off(attempt) == attempt < MAX_RETRIES - 1

\* (2 ** attempt) seconds
RECURSIVE Pow2(_)
Pow2(n) == IF n = 0 THEN 1 ELSE 2 * Pow2(n - 1)

backoff_wait(attempt, jitter) == Pow2(attempt) * TicksPerSecond + jitter

\* ---------------------------------------------------------------- the state
VARIABLES
    now,              \* the wall clock, in ticks
    ticks,            \* how often the clock has been moved
    circuit_breaker,  \* the process-wide CircuitBreaker
    rate_limiter,     \* the process-wide RateLimiter
    task,             \* per task: where it stands in its job
    ev,               \* history: what the last step did
    streak,           \* history: failures recorded for a key since the last
                      \* success or reset
    trip,             \* history: when a key's breaker went from closed to open
    streak_by         \* history: the platforms of the jobs whose failures make
                      \* up the streak

\* the tasks that call rate_limiter.acquire on their own
VARIABLES
    caller,           \* per caller: where it stands in acquire
    grants            \* history: the moments acquire returned

limiter_vars == <<caller, grants>>

\* the alert engine
VARIABLES
    engine,           \* where process_product_metrics stands
    alert_events,     \* the AlertEvent rows of the session
    sends             \* history: the calls of channel.send

alert_vars == <<engine, alert_events, sends>>

\* the parts of the program that the specifications further down are about
VARIABLES
    store,            \* the database and the runs that write to it
    scheduler,        \* the jobs of the scheduler that are executing
    mcp_channel,      \* MCPChannel._pending_alerts and its callers
    webhook,          \* a call of WebhookChannel.send
    fx,               \* the FX cache and the lookups under way
    trigger           \* an evaluation of an alert trigger

\* the rank trigger, deactivation, the extractors and the analysers
VARIABLES
    rank_trigger,     \* the rank_change trigger over the days of a product
    subscriptions,    \* the subscriptions of a product and their processing
    extractor,        \* a call of scrape_product on a page
    arbitrage,        \* a call of analyze_prices
    signals,          \* the scores of a metric series
    discount          \* the discount-cycle predictor on a price series

final_vars ==
    <<rank_trigger, subscriptions, extractor, arbitrage, signals, discount>>

later_vars ==
    <<store, scheduler, mcp_channel, webhook, fx, trigger, final_vars>>

vars == <<now, ticks, circuit_breaker, rate_limiter, task, ev,
          streak, trip, streak_by, limiter_vars, alert_vars, later_vars>>

Callers == {"c1", "c2", "c3"}
IdleCaller == [pc |-> "idle", entered |-> 0, wake |-> 0]
\* subscriptions: the ones the loop has still to evaluate; event: the id of
\* the event being notified; sent: what the last _send_notification
\* returned; triggered_events: the ids of the events to return
IdleEngine ==
    [pc |-> "idle", subscriptions |-> <<>>, event |-> 0, sent |-> "",
     triggered_events |-> <<>>]

\* ---- the database
MaxDays == 2
Days == 1..MaxDays
\* the external ids of the products on the bestseller page of the model
Asins == {"A1", "A2"}
\* a discovery pass, a manual trigger_scrape, an analyze request and a
\* metrics run, all of the platform amazon_us
Workers == {"discover", "trigger", "analyze", "metrics"}
\* session: "failed" once a flush has raised and rollback() was not called;
\* error: the last exception of the run; collateral: the URLs the run gave
\* up because an earlier URL had left its session failed
IdleRun ==
    [pc |-> "idle", urls |-> <<>>, session |-> "ok", error |-> "",
     collateral |-> 0]
\* products, daily_metrics: how many committed rows there are per
\* (platform, asin) and per (product, date); pending: the product row a run
\* has flushed and not committed
IdleStore ==
    [products |-> [a \in Asins |-> 0],
     pending |-> [w \in Workers |-> ""],
     daily_metrics |-> [a \in Asins |-> [d \in Days |-> 0]],
     today |-> 1,
     run |-> [w \in Workers |-> IdleRun]]
\* ---- the scheduler: the jobs that are executing
IdleScheduler == [job \in ScheduledJobs |-> "waiting"]
\* ---- the MCP channel
MaxSends == 3
Users == {"u1", "u2"}
\* _pending_alerts: the class attribute, user_id -> list of payloads (a
\* payload is known by the number of the send that built it); sends: how
\* many calls of send there were; accepted: per user, the sends that returned
\* True since the last clear_alerts; cleared: what the last clear_alerts
\* returned and how many payloads it took out of the queue
IdleMcp ==
    [_pending_alerts |-> EmptyDict,
     sends |-> 0,
     accepted |-> [u \in Users |-> 0],
     cleared |-> [returned |-> 0, removed |-> 0],
     op |-> ""]
\* ---- the webhook channel
\* posts: how each POST of the call ended, in order; result: what send
\* returned
IdleWebhook == [pc |-> "idle", attempt |-> 0, posts |-> <<>>, result |-> ""]
\* ---- the currency converters
MaxCalls == 3
\* a Decimal is kept in hundred-thousandths
DecimalUnit == 100000
\* one CurrencyConverter per ArbitrageAnalyzer, one analyzer per request
Analyzers == {"a1", "a2"}
FxCalls == {"c1", "c2"}
FxPairs == { <<"USD", "USD">>, <<"USD", "INR">>, <<"INR", "EUR">> }
IdleCall ==
    [pc |-> "idle", analyzer |-> "a1", pair |-> <<"USD", "USD">>,
     known |-> 0, live |-> "none", rate |-> 0, source |-> ""]
\* _cache: 0 stands for a key that is not in the dict.  first: the rate
\* first cached for the pair by any converter; overwritten: an entry was
\* assigned again; known (of a call): first[pair] when the call began
IdleFx ==
    [_cache |-> [a \in Analyzers |-> [p \in FxPairs |-> 0]],
     call |-> [c \in FxCalls |-> IdleCall],
     calls |-> 0,
     first |-> [p \in FxPairs |-> 0],
     overwritten |-> FALSE]
\* ---- the triggers
MaxMetrics == 4
\* an Optional value is a sequence: <<>> is None, <<v>> is the value v
\* metrics: the daily metrics of one product, oldest first; events: what
\* evaluate returned for each of them, with the metric before it as
\* previous
IdleTrigger ==
    [subscription |-> [alert_type |-> "stockout", threshold_value |-> <<>>,
                       threshold_percent |-> <<>>],
     metrics |-> <<>>,
     events |-> <<>>]

\* none of the later parts has started
\* ---- the rank trigger
MaxRanks == 3
IdleRankTrigger == [metrics |-> <<>>, events |-> <<>>]

\* ---- deactivation
MaxProcessed == 2
SubscriptionIds == {"s1", "s2"}
\* is_active: the column of each subscription; pc, list: where
\* process_product_metrics stands and the subscriptions it has still to
\* evaluate; processed: the calls so far; events, sends: for each AlertEvent
\* created and each notification sent, the subscription and whether it was
\* active at that moment
IdleSubscriptions ==
    [is_active |-> [s \in SubscriptionIds |-> TRUE],
     pc |-> "idle",
     list |-> <<>>,
     event |-> "",
     processed |-> 0,
     events |-> <<>>,
     sends |-> <<>>]

\* ---- the extractors
\* scraper, page: the call; result: <<>> for None, else the record returned
IdleExtractor ==
    [pc |-> "idle", scraper |-> "", page |-> <<>>, result |-> <<>>]
\* ---- the arbitrage analyzer
\* call: the method called and its arguments; regional_prices: the list
\* given to analyze_prices; result: the GlobalPriceComparison
IdleArbitrage ==
    [pc |-> "idle", call |-> <<>>, category |-> "",
     regional_prices |-> <<>>,
     result |-> [price_spread_percent |-> 0,
                 arbitrage_opportunities |-> <<>>]]
\* ---- the signal scores
MaxSeries == 3
\* metrics: the series, one DailyMetric a day, oldest first; the scores of
\* the series, in tenths
IdleSignals ==
    [metrics |-> <<>>, demand |-> 0, competition |-> 500, trend |-> 0,
     risk |-> 0, overall |-> 425]
\* ---- the discount-cycle predictor
MaxAppended == 7
\* metrics: the price series, a metric a day; appended: the days added to
\* the history the series began with; discounts: what _detect_discounts
\* gives for the series; prediction: what predict gives
NoPrediction ==
    [avg_cycle_days |-> <<>>, confidence |-> 0,
     historical_discounts |-> <<>>]
IdleDiscount ==
    [metrics |-> <<>>, appended |-> 0, discounts |-> <<>>,
     prediction |-> NoPrediction]

NoFinal ==
    /\ rank_trigger = IdleRankTrigger
    /\ subscriptions = IdleSubscriptions
    /\ extractor = IdleExtractor
    /\ arbitrage = IdleArbitrage
    /\ signals = IdleSignals
    /\ discount = IdleDiscount

NoLater ==
    /\ store = IdleStore
    /\ scheduler = IdleScheduler
    /\ mcp_channel = IdleMcp
    /\ webhook = IdleWebhook
    /\ fx = IdleFx
    /\ trigger = IdleTrigger
    /\ NoFinal

\* nobody calls acquire on their own
NoCallers ==
    /\ caller = [c \in Callers |-> IdleCaller]
    /\ grants = <<>>

\* the alert engine is not running
NoEngine ==
    /\ engine = IdleEngine
    /\ alert_events = <<>>
    /\ sends = <<>>

IdleTask ==
    [pc |-> "idle", cats |-> 0, urls |-> 0, attempt |-> 0,
     entered |-> 0, wake |-> 0, result |-> "",
     \* history: how often the scrape_with_retry call the task is in has
     \* called scrape_product, and how many failures it has recorded
     started |-> 0, fails |-> 0,
     \* history: the breaker was open when the job was invoked
     open_at_invoke |-> FALSE,
     \* history: how long the task slept before the attempt it is in
     waited |-> 0]

\* op: the operation; task: the task that did it.  For a call of is_open,
\* rejected: it returned True.  For a call of is_open or record_failure,
\* pre_open, pre_streak: the key's breaker before the call.  For a step that ends a scrape_with_retry call, ret: what the
\* call returned; started, fails, succ: how often it called scrape_product
\* and how many failures and successes it recorded
NoEvent ==
    [op |-> "init", task |-> "", rejected |-> FALSE,
     pre_open |-> FALSE, pre_streak |-> 0,
     ret |-> "", started |-> 0, fails |-> 0, succ |-> 0]

\* failures in a row that earlier Amazon scrapes may have left in the breaker
\* when the model starts
PriorFailures ==
    {0, failure_threshold - MAX_RETRIES, failure_threshold - 1}

\* requests the limiter has granted just before the model starts
InitialRequests == requests_per_minute - 1

Init ==
    /\ now = 0
    /\ ticks = 0
    /\ \E n \in PriorFailures :
         /\ circuit_breaker =
               [failures |-> IF n = 0 THEN EmptyDict
                             ELSE Put(EmptyDict, "unknown", n),
                open_circuits |-> EmptyDict]
         /\ streak = [k \in Keys |-> IF k = "unknown" THEN n ELSE 0]
         /\ streak_by = [k \in Keys |-> IF k = "unknown" /\ n > 0
                                        THEN {"amazon_us"} ELSE {}]
    /\ rate_limiter = [request_times |-> [i \in 1..InitialRequests |-> 0]]
    /\ task = [t \in Tasks |-> IdleTask]
    /\ ev = NoEvent
    /\ trip = EmptyDict
    /\ NoCallers
    /\ NoEngine
    /\ NoLater

Running(t) == task[t].pc \notin {"idle", "returned"}
ScraperKey(t) == PLATFORM(JobScraper(t))

\* ------------------------------------------------- history kept with breaker
Event(op, t) == [NoEvent EXCEPT !.op = op, !.task = t]

CheckEvent(op, t, key) ==
    [Event(op, t) EXCEPT
        !.rejected = is_open(circuit_breaker, key, now),
        !.pre_open = key \in DOMAIN circuit_breaker.open_circuits,
        !.pre_streak = streak[key]]

\* record_failure(key) of task t's scraper
FailureEvent(t) ==
    [Event("record_failure", t) EXCEPT
        !.pre_open = ScraperKey(t) \in DOMAIN circuit_breaker.open_circuits,
        !.pre_streak = streak[ScraperKey(t)]]

\* is_open(key) was called
HistoryCheck(key) ==
    IF is_open_expired(circuit_breaker, key, now)
    THEN /\ streak' = [streak EXCEPT ![key] = 0]
         /\ streak_by' = [streak_by EXCEPT ![key] = {}]
         /\ trip' = Del(trip, key)
    ELSE UNCHANGED <<streak, trip, streak_by>>

\* record_failure(key) was called by task t
HistoryFailure(t, key) ==
    /\ streak' = [streak EXCEPT ![key] = @ + 1]
    /\ streak_by' = [streak_by EXCEPT ![key] = @ \cup {JobPlatform(t)}]
    /\ IF /\ key \notin DOMAIN circuit_breaker.open_circuits
          /\ key \in DOMAIN circuit_breaker'.open_circuits
       THEN trip' = Put(trip, key, now)
       ELSE UNCHANGED trip

\* record_success(key) was called
HistorySuccess(key) ==
    /\ streak' = [streak EXCEPT ![key] = 0]
    /\ streak_by' = [streak_by EXCEPT ![key] = {}]
    /\ UNCHANGED trip

\* ------------------------------------------------------------------ the jobs
OpenForJob(j) ==
    \/ is_open(circuit_breaker, JobPlatform(j), now)
    \/ is_open(circuit_breaker, PLATFORM(JobScraper(j)), now)

\* a job function is not started while its last run is still going
discover_products(t) ==
    /\ task[t].pc = "idle"
    /\ t \in DiscoverJobs
    /\ LET platform == JobPlatform(t)
           started == [IdleTask EXCEPT !.open_at_invoke = OpenForJob(t)]
       IN /\ circuit_breaker' = is_open_reset(circuit_breaker, platform, now)
          /\ HistoryCheck(platform)
          /\ ev' = CheckEvent("discover_products", t, platform)
          /\ task' = [task EXCEPT ![t] =
                IF is_open(circuit_breaker, platform, now)
                THEN [started EXCEPT !.pc = "returned", !.result = "None"]
                ELSE [started EXCEPT !.pc = "loop", !.cats = Cardinality(Categories)]]
    /\ UNCHANGED <<now, ticks, rate_limiter>>

    /\ UNCHANGED <<limiter_vars, alert_vars, later_vars>>
collect_metrics(t) ==
    /\ task[t].pc = "idle"
    /\ t \notin DiscoverJobs
    /\ LET platform == JobPlatform(t)
           started == [IdleTask EXCEPT !.open_at_invoke = OpenForJob(t)]
       IN /\ circuit_breaker' = is_open_reset(circuit_breaker, platform, now)
          /\ HistoryCheck(platform)
          /\ ev' = CheckEvent("collect_metrics", t, platform)
          /\ \E products \in UrlCounts :
               task' = [task EXCEPT ![t] =
                  IF is_open(circuit_breaker, platform, now)
                  THEN [started EXCEPT !.pc = "returned", !.result = "None"]
                  ELSE [started EXCEPT !.pc = "loop", !.urls = products]]
    /\ UNCHANGED <<now, ticks, rate_limiter>>

    /\ UNCHANGED <<limiter_vars, alert_vars, later_vars>>
\* the next category's bestseller page is fetched; found counts the URLs on
\* it that carry an id and are not stored yet, the ones the loop scrapes.  A
\* fetch that raises is caught and leaves the job where an empty page does
scrape_bestseller_page(t) ==
    /\ task[t].pc = "loop"
    /\ t \in DiscoverJobs
    /\ task[t].urls = 0
    /\ task[t].cats > 0
    /\ \E found \in UrlCounts :
         task' = [task EXCEPT ![t].cats = @ - 1, ![t].urls = found]
    /\ ev' = Event("scrape_bestseller_page", t)
    /\ UNCHANGED <<now, ticks, circuit_breaker, rate_limiter,
                   streak, trip, streak_by>>

    /\ UNCHANGED <<limiter_vars, alert_vars, later_vars>>
job_return(t) ==
    /\ task[t].pc = "loop"
    /\ task[t].urls = 0
    /\ task[t].cats = 0
    /\ task' = [task EXCEPT ![t].pc = "returned", ![t].result = "None"]
    /\ ev' = Event("job_return", t)
    /\ UNCHANGED <<now, ticks, circuit_breaker, rate_limiter,
                   streak, trip, streak_by>>

    /\ UNCHANGED <<limiter_vars, alert_vars, later_vars>>
\* -------------------------------------------------------- scrape_with_retry
\* the task record once scrape_with_retry has returned
Returned(r) ==
    [r EXCEPT !.pc = "loop", !.urls = @ - 1, !.attempt = 0,
              !.entered = 0, !.wake = 0, !.waited = 0,
              !.started = 0, !.fails = 0]

\* the task record once scrape_product has been called for attempt a
Attempting(r, a, waited) ==
    [r EXCEPT !.pc = "fetching", !.attempt = a, !.waited = waited,
              !.entered = 0, !.wake = 0, !.started = @ + 1]

\* the task record once the call has recorded one more failure
Failed(r) == [r EXCEPT !.fails = @ + 1]

\* what the call of task record r has done when it returns ret
Summary(e, ret, r, succ) ==
    [e EXCEPT !.ret = ret, !.started = r.started, !.fails = r.fails,
              !.succ = succ]

scrape_with_retry(t) ==
    /\ task[t].pc = "loop"
    /\ task[t].urls > 0
    /\ LET key == ScraperKey(t)
           cleaned == acquire_clean(rate_limiter, now)
           sleep == acquire_sleep(cleaned, now)
           e == CheckEvent("scrape_with_retry", t, key)
       IN /\ circuit_breaker' = is_open_reset(circuit_breaker, key, now)
          /\ HistoryCheck(key)
          /\ IF is_open(circuit_breaker, key, now)
             THEN /\ task' = [task EXCEPT ![t] = Returned(task[t])]
                  /\ ev' = [e EXCEPT !.ret = "None"]
                  /\ UNCHANGED rate_limiter
             ELSE IF sleep > 0
             THEN /\ task' = [task EXCEPT ![t].pc = "limiter_sleep",
                                  ![t].entered = now, ![t].wake = now + sleep]
                  /\ ev' = e
                  /\ rate_limiter' = cleaned
             ELSE /\ task' = [task EXCEPT ![t] = Attempting(task[t], 0, 0)]
                  /\ ev' = e
                  /\ rate_limiter' = acquire_append(cleaned, now)
    /\ UNCHANGED <<now, ticks>>

    /\ UNCHANGED <<limiter_vars, alert_vars, later_vars>>
\* rate_limiter.acquire returns from its sleep
acquire_wake(t) ==
    /\ task[t].pc = "limiter_sleep"
    /\ now >= task[t].wake
    /\ rate_limiter' = acquire_append(rate_limiter, task[t].entered)
    /\ task' = [task EXCEPT ![t] = Attempting(task[t], 0, 0)]
    /\ ev' = Event("acquire_wake", t)
    /\ UNCHANGED <<now, ticks, circuit_breaker, streak, trip, streak_by>>

    /\ UNCHANGED <<limiter_vars, alert_vars, later_vars>>
\* scrape_product returns a product
scrape_product_ok(t) ==
    /\ task[t].pc = "fetching"
    /\ circuit_breaker' = record_success(circuit_breaker, ScraperKey(t))
    /\ HistorySuccess(ScraperKey(t))
    /\ task' = [task EXCEPT ![t] = Returned(task[t])]
    /\ ev' = Summary(Event("record_success", t), "product", task[t], 1)
    /\ UNCHANGED <<now, ticks, rate_limiter>>

    /\ UNCHANGED <<limiter_vars, alert_vars, later_vars>>
\* scrape_product returns None
scrape_product_none(t) ==
    /\ task[t].pc = "fetching"
    /\ circuit_breaker' = record_failure(circuit_breaker, ScraperKey(t), now)
    /\ HistoryFailure(t, ScraperKey(t))
    /\ LET e == FailureEvent(t)
           r == Failed(task[t])
       IN IF more_attempts(r.attempt)
          THEN /\ task' = [task EXCEPT ![t] = Attempting(r, r.attempt + 1, 0)]
               /\ ev' = e
          ELSE /\ task' = [task EXCEPT ![t] = Returned(r)]
               /\ ev' = Summary(e, "None", r, 0)
    /\ UNCHANGED <<now, ticks, rate_limiter>>

    /\ UNCHANGED <<limiter_vars, alert_vars, later_vars>>
\* scrape_product raises
scrape_product_raise(t) ==
    /\ task[t].pc = "fetching"
    /\ circuit_breaker' = record_failure(circuit_breaker, ScraperKey(t), now)
    /\ HistoryFailure(t, ScraperKey(t))
    /\ LET e == FailureEvent(t)
           r == Failed(task[t])
       IN IF backs_off(r.attempt)
          THEN /\ \E jitter \in Jitter :
                    task' = [task EXCEPT ![t] =
                       [r EXCEPT !.pc = "backoff",
                           !.waited = backoff_wait(r.attempt, jitter),
                           !.wake = now + backoff_wait(r.attempt, jitter)]]
               /\ ev' = e
          ELSE IF more_attempts(r.attempt)
          THEN /\ task' = [task EXCEPT ![t] = Attempting(r, r.attempt + 1, 0)]
               /\ ev' = e
          ELSE /\ task' = [task EXCEPT ![t] = Returned(r)]
               /\ ev' = Summary(e, "None", r, 0)
    /\ UNCHANGED <<now, ticks, rate_limiter>>

    /\ UNCHANGED <<limiter_vars, alert_vars, later_vars>>
\* the backoff sleep is over
backoff_wake(t) ==
    /\ task[t].pc = "backoff"
    /\ now >= task[t].wake
    /\ LET e == Event("backoff_wake", t)
       IN IF more_attempts(task[t].attempt)
          THEN /\ task' = [task EXCEPT ![t] =
                     Attempting(task[t], task[t].attempt + 1, task[t].waited)]
               /\ ev' = e
          ELSE /\ task' = [task EXCEPT ![t] = Returned(task[t])]
               /\ ev' = Summary(e, "None", task[t], 0)
    /\ UNCHANGED <<now, ticks, circuit_breaker, rate_limiter,
                   streak, trip, streak_by>>

    /\ UNCHANGED <<limiter_vars, alert_vars, later_vars>>
\* ------------------------------------------------------------------ the clock
Tick ==
    /\ ticks < MaxTicks
    /\ ticks' = ticks + 1
    /\ \E d \in Delays : now' = now + d
    /\ ev' = [NoEvent EXCEPT !.op = "tick"]
    /\ UNCHANGED <<circuit_breaker, rate_limiter, task,
                   streak, trip, streak_by>>

    /\ UNCHANGED <<limiter_vars, alert_vars, later_vars>>
Sleeping(t) == task[t].pc \in {"limiter_sleep", "backoff"} /\ task[t].wake > now

\* the clock runs on to the moment the first sleeper is due
Sleep ==
    /\ ticks < MaxTicks
    /\ ticks' = ticks + 1
    /\ \E t \in Tasks :
         /\ Sleeping(t)
         /\ \A u \in Tasks : Sleeping(u) => task[t].wake <= task[u].wake
         /\ now' = task[t].wake
    /\ ev' = [NoEvent EXCEPT !.op = "sleep"]
    /\ UNCHANGED <<circuit_breaker, rate_limiter, task,
                   streak, trip, streak_by>>

    /\ UNCHANGED <<limiter_vars, alert_vars, later_vars>>
Next ==
    \/ \E t \in Tasks : discover_products(t)
    \/ \E t \in Tasks : collect_metrics(t)
    \/ \E t \in Tasks : scrape_bestseller_page(t)
    \/ \E t \in Tasks : job_return(t)
    \/ \E t \in Tasks : scrape_with_retry(t)
    \/ \E t \in Tasks : acquire_wake(t)
    \/ \E t \in Tasks : scrape_product_ok(t)
    \/ \E t \in Tasks : scrape_product_none(t)
    \/ \E t \in Tasks : scrape_product_raise(t)
    \/ \E t \in Tasks : backoff_wake(t)
    \/ Tick
    \/ Sleep

Spec == Init /\ [][Next]_vars

\* ===================================================== the circuit breaker
Timeout == reset_timeout * TicksPerSecond
Opened(k) == k \in DOMAIN circuit_breaker.open_circuits
BeganScrape(e) == e.op = "scrape_with_retry"

\* C1: once a key's breaker has gone from closed to open, every
\* scrape_with_retry call for that key that starts before reset_timeout
\* seconds have passed since then is rejected, whatever the scrapes that
\* were in flight report
C1_RejectedUntilTimeout ==
    BeganScrape(ev) =>
        LET k == ScraperKey(ev.task)
        IN (k \in DOMAIN trip /\ now - trip[k] < Timeout) => ev.rejected

\* C2: a closed breaker opens exactly on the failure that is the
\* failure_threshold-th in a row; while it is closed its counter is the
\* number of failures since the last success, and a success sets it to 0
C2_OpensExactlyAtThreshold ==
    [][\A k \in Keys :
        ~Opened(k) =>
          /\ Get(circuit_breaker.failures, k, 0) = streak[k]
          /\ streak[k] < failure_threshold
          /\ (k \in DOMAIN circuit_breaker'.open_circuits) <=>
                (streak'[k] = streak[k] + 1 /\ streak'[k] = failure_threshold)
          /\ (ev'.op = "record_success" /\ ScraperKey(ev'.task) = k) =>
                Get(circuit_breaker'.failures, k, 0) = 0
      ]_vars

\* a closed breaker has just been opened by its failure_threshold-th failure
C2_Witness ==
    /\ ev.op = "record_failure"
    /\ ~ev.pre_open
    /\ Opened(ScraperKey(ev.task))
    /\ streak[ScraperKey(ev.task)] = failure_threshold

\* C3: the call of is_open that finds the breaker open more than
\* reset_timeout seconds after it went from closed to open returns False
\* and leaves the failure counter at 0
C3_OpenPeriodFromTrip ==
    (BeganScrape(ev) /\ ev.pre_open) =>
        LET k == ScraperKey(ev.task)
        IN (k \in DOMAIN trip /\ now - trip[k] > Timeout) =>
              /\ ~ev.rejected
              /\ Get(circuit_breaker.failures, k, 0) = 0

C5_KeyedByPlatform ==
    (BeganScrape(ev) /\ ev.rejected) =>
        streak_by[ScraperKey(ev.task)] \subseteq {JobPlatform(ev.task)}

\* C6: a job invoked while the breaker of its platform is open fetches
\* nothing and returns a status that names the open circuit
C6_OpenJobSkips ==
    \A t \in Tasks :
        task[t].open_at_invoke =>
            /\ task[t].pc = "returned"
            /\ task[t].result = "CircuitOpen"

\* =========================================================== the retry loop
Ended(e) == e.ret # ""

\* C8: a scrape_with_retry call calls scrape_product at most MAX_RETRIES
\* times; it returns the product of the first attempt that has one, with one
\* success and a failure for each attempt before it recorded; it returns
\* None after MAX_RETRIES attempts that each recorded one failure
C8_AtMostThreeAttempts ==
    /\ \A t \in Tasks :
          /\ task[t].started <= MAX_RETRIES
          /\ task[t].pc = "fetching" => task[t].fails = task[t].started - 1
    /\ (Ended(ev) /\ ~BeganScrape(ev)) =>
          /\ ev.ret = "product" =>
                ev.succ = 1 /\ ev.fails = ev.started - 1
          /\ ev.ret = "None" =>
                ev.succ = 0 /\ ev.started = MAX_RETRIES /\ ev.fails = MAX_RETRIES

\* a call has returned None after its third failed attempt
C8_Witness ==
    /\ Ended(ev)
    /\ ev.ret = "None"
    /\ ev.started = MAX_RETRIES
    /\ ev.fails = MAX_RETRIES

\* C9: every attempt after the first starts after a wait of at least
\* 2^attempt seconds, attempt being the number of the attempt before it
C9_BackoffBetweenAttempts ==
    \A t \in Tasks :
        (task[t].pc = "fetching" /\ task[t].attempt >= 1) =>
            task[t].waited >= backoff_wait(task[t].attempt - 1, 0)

\* task t calls scrape_product in this step
StartsAttempt(t) ==
    /\ task'[t].pc = "fetching"
    /\ \/ task[t].pc # "fetching"
       \/ task'[t].started = task[t].started + 1

\* C29: no attempt of scrape_product is started for a platform while the
\* breaker of that platform is open
C29_NoAttemptWhileOpen ==
    [][\A t \in Tasks :
          StartsAttempt(t) =>
              ~is_open(circuit_breaker', ScraperKey(t), now')]_vars

\* task t starts a page fetch in this step: an attempt of scrape_product or
\* the fetch of a bestseller page
StartsFetch(t) ==
    \/ StartsAttempt(t)
    \/ /\ ev'.op = "scrape_bestseller_page"
       /\ ev'.task = t
       /\ task'[t] # task[t]

\* rate_limiter.acquire has returned to task t in this step
AcquiresSlot(t) ==
    \E entered \in {now, task[t].entered} :
        rate_limiter' \in
            { acquire_append(acquire_clean(rate_limiter, now), entered),
              acquire_append(rate_limiter, entered) }

\* C30: every page fetch, each attempt of scrape_with_retry and each
\* bestseller page fetch of a discovery pass, comes with a slot of the
\* rate limiter of its own
C30_SlotForEveryFetch ==
    [][\A t \in Tasks : StartsFetch(t) => AcquiresSlot(t)]_vars


\* ========================================================= the rate limiter
\* tasks that call rate_limiter.acquire() on their own, each once
NoScraping ==
    /\ circuit_breaker = [failures |-> EmptyDict, open_circuits |-> EmptyDict]
    /\ task = [t \in Tasks |-> IdleTask]
    /\ ev = NoEvent
    /\ streak = [k \in Keys |-> 0]
    /\ streak_by = [k \in Keys |-> {}]
    /\ trip = EmptyDict

scrape_vars == <<circuit_breaker, task, ev, streak, trip, streak_by>>

\* the requests granted before the model starts: none, or one a second ago
\* and the others just now
EarlierRequests ==
    { <<>>,
      [i \in 1..InitialRequests |-> IF i = 1 THEN 0 ELSE TicksPerSecond] }

InitLimiter ==
    /\ now = TicksPerSecond
    /\ ticks = 0
    /\ \E earlier \in EarlierRequests :
         /\ rate_limiter = [request_times |-> earlier]
         /\ grants = earlier
    /\ caller = [c \in Callers |-> IdleCaller]
    /\ NoScraping
    /\ NoEngine
    /\ NoLater

\* acquire, up to its sleep or, when it does not sleep, its return
acquire(c) ==
    /\ caller[c].pc = "idle"
    /\ LET cleaned == acquire_clean(rate_limiter, now)
           sleep == acquire_sleep(cleaned, now)
       IN IF sleep > 0
          THEN /\ caller' = [caller EXCEPT ![c] =
                     [pc |-> "sleeping", entered |-> now, wake |-> now + sleep]]
               /\ rate_limiter' = cleaned
               /\ UNCHANGED grants
          ELSE /\ caller' = [caller EXCEPT ![c].pc = "granted"]
               /\ rate_limiter' = acquire_append(cleaned, now)
               /\ grants' = Append(grants, now)
    /\ UNCHANGED <<now, ticks, scrape_vars, alert_vars, later_vars>>

\* acquire, from the end of its sleep to its return
acquire_after_sleep(c) ==
    /\ caller[c].pc = "sleeping"
    /\ now >= caller[c].wake
    /\ caller' = [caller EXCEPT ![c] = [IdleCaller EXCEPT !.pc = "granted"]]
    /\ rate_limiter' = acquire_append(rate_limiter, caller[c].entered)
    /\ grants' = Append(grants, now)
    /\ UNCHANGED <<now, ticks, scrape_vars, alert_vars, later_vars>>

TickLimiter ==
    /\ ticks < MaxTicks
    /\ ticks' = ticks + 1
    /\ \E d \in Delays : now' = now + d
    /\ UNCHANGED <<rate_limiter, limiter_vars, scrape_vars, alert_vars,
                   later_vars>>

Asleep(c) == caller[c].pc = "sleeping" /\ caller[c].wake > now

\* the clock runs on to the moment the first sleeping caller is due
SleepLimiter ==
    /\ ticks < MaxTicks
    /\ ticks' = ticks + 1
    /\ \E c \in Callers :
         /\ Asleep(c)
         /\ \A d \in Callers : Asleep(d) => caller[c].wake <= caller[d].wake
         /\ now' = caller[c].wake
    /\ UNCHANGED <<rate_limiter, limiter_vars, scrape_vars, alert_vars,
                   later_vars>>

NextLimiter ==
    \/ \E c \in Callers : acquire(c)
    \/ \E c \in Callers : acquire_after_sleep(c)
    \/ TickLimiter
    \/ SleepLimiter

SpecLimiter == InitLimiter /\ [][NextLimiter]_vars

GrantsSince(t) == Cardinality({i \in 1..Len(grants) : grants[i] > t})

\* C7: no more than requests_per_minute calls of acquire have returned in
\* the 60 seconds that end now
C7_WindowLimit == GrantsSince(now - Minute) <= requests_per_minute


\* ========================================================= the alert engine
MaxSubscriptions == 2

\* alert types: one with a trigger, one without
AlertTypes == {"price_drop", "no_such_type"}
TRIGGER_REGISTRY ==
    {"price_drop", "stockout", "trend_change", "arbitrage", "rank_change"}
get_trigger(alert_type) ==
    IF alert_type \in TRIGGER_REGISTRY THEN alert_type ELSE "None"

\* notification channels: the three registered ones, and one that is not
Channels == {"webhook", "mcp", "email", "sms"}
CHANNEL_REGISTRY == {"webhook", "mcp", "email"}
get_channel(channel_type) ==
    IF channel_type \in CHANNEL_REGISTRY THEN channel_type ELSE "None"

\* how channel.send can end: the webhook posts or gives up, or raises on a
\* payload it cannot build; the MCP channel catches what it raises; the
\* e-mail channel only logs
send_outcomes(channel) ==
    CASE channel = "webhook" -> {"True", "False", "raise"}
      [] channel = "mcp" -> {"True", "False"}
      [] channel = "email" -> {"True"}

\* how trigger.evaluate can end
evaluate_outcomes == {"triggered", "not triggered", "None", "raise"}

\* the active subscriptions of a product, as get_product_subscriptions
\* returns them
SubscriptionLists ==
    UNION { [1..n -> AlertTypes \X Channels] : n \in 0..MaxSubscriptions }

Subscription(id, row) ==
    [id |-> id, alert_type |-> row[1], notification_channel |-> row[2]]

\* the slip of an event that is built and never added to the session
create_not_added(events, subscription_id) == events

\* AlertEventRepository.create: the session with the new row
create(events, subscription_id) ==
    Append(events, [id |-> Len(events) + 1, subscription_id |-> subscription_id])

InitAlert ==
    /\ now = 0
    /\ ticks = 0
    /\ rate_limiter = [request_times |-> <<>>]
    /\ NoScraping
    /\ NoCallers
    /\ NoEngine
    /\ NoLater

process_product_metrics ==
    /\ engine.pc = "idle"
    /\ \E rows \in SubscriptionLists :
         engine' = [IdleEngine EXCEPT
            !.pc = "loop",
            !.subscriptions = [i \in DOMAIN rows |-> Subscription(i, rows[i])]]
    /\ UNCHANGED <<alert_events, sends>>
    /\ UNCHANGED <<now, ticks, rate_limiter, scrape_vars, limiter_vars,
                   later_vars>>

\* _evaluate_subscription up to the call of _send_notification
_evaluate_subscription ==
    /\ engine.pc = "loop"
    /\ engine.subscriptions # <<>>
    /\ LET subscription == Head(engine.subscriptions)
           skipped == [engine EXCEPT !.subscriptions = Tail(@)]
       IN IF get_trigger(subscription.alert_type) = "None"
          THEN engine' = skipped /\ UNCHANGED alert_events
          ELSE \E result \in evaluate_outcomes :
                 CASE result = "raise" ->
                        /\ engine' = [engine EXCEPT !.pc = "raised"]
                        /\ UNCHANGED alert_events
                   [] result \in {"None", "not triggered"} ->
                        /\ engine' = skipped
                        /\ UNCHANGED alert_events
                   [] result = "triggered" ->
                        \/ /\ alert_events' =
                                 create(alert_events, subscription.id)
                           /\ engine' = [engine EXCEPT !.pc = "notify",
                                 !.event = Len(alert_events) + 1]
                        \/ \* the flush fails
                           /\ engine' = [engine EXCEPT !.pc = "raised"]
                           /\ UNCHANGED alert_events
    /\ UNCHANGED sends
    /\ UNCHANGED <<now, ticks, rate_limiter, scrape_vars, limiter_vars,
                   later_vars>>

\* _send_notification, and the rest of _evaluate_subscription
_send_notification ==
    /\ engine.pc = "notify"
    /\ LET subscription == Head(engine.subscriptions)
           channel == get_channel(subscription.notification_channel)
           done == [engine EXCEPT !.pc = "loop", !.event = 0,
                       !.subscriptions = Tail(@),
                       !.triggered_events = Append(@, engine.event)]
       IN IF channel = "None"
          THEN /\ engine' = [done EXCEPT !.sent = "False"]
               /\ UNCHANGED sends
          ELSE \E success \in send_outcomes(channel) :
                 /\ sends' = Append(sends, [event |-> engine.event,
                        channel |-> channel, outcome |-> success])
                 /\ engine' = [done EXCEPT !.sent =
                        IF success = "raise" THEN "False" ELSE success]
    /\ UNCHANGED alert_events
    /\ UNCHANGED <<now, ticks, rate_limiter, scrape_vars, limiter_vars,
                   later_vars>>

engine_return ==
    /\ engine.pc = "loop"
    /\ engine.subscriptions = <<>>
    /\ engine' = [engine EXCEPT !.pc = "returned"]
    /\ UNCHANGED <<alert_events, sends>>
    /\ UNCHANGED <<now, ticks, rate_limiter, scrape_vars, limiter_vars,
                   later_vars>>

NextAlert ==
    \/ process_product_metrics
    \/ _evaluate_subscription
    \/ _send_notification
    \/ engine_return

SpecAlert == InitAlert /\ [][NextAlert]_vars

EventIds(events) == {events[i].id : i \in 1..Len(events)}

\* C10: an event, once created, stays; channel.send is called for an event
\* that is already there and that no earlier send was for; and whatever way
\* the notification ends (send returns False or raises, the channel is not
\* registered), the event is there afterwards
C10_EventBeforeSend ==
    [][ /\ \A i \in 1..Len(alert_events) :
              i <= Len(alert_events') /\ alert_events'[i] = alert_events[i]
        /\ sends' # sends =>
              /\ Len(sends') = Len(sends) + 1
              /\ sends'[Len(sends')].event \in EventIds(alert_events)
              /\ \A j \in 1..Len(sends) :
                    sends[j].event # sends'[Len(sends')].event
        /\ engine.pc = "notify" => engine.event \in EventIds(alert_events')
      ]_vars

\* a send has raised and its event is in the session
C10_Witness ==
    /\ sends # <<>>
    /\ sends[Len(sends)].outcome = "raise"
    /\ engine.sent = "False"
    /\ sends[Len(sends)].event \in EventIds(alert_events)


\* C11: when process_product_metrics is over, whether it returned or a
\* subscription's evaluation or event raised, no subscription after the
\* failing one is left unevaluated
C11_OthersStillEvaluated ==
    engine.pc \in {"returned", "raised"} =>
        \/ engine.subscriptions = <<>>
        \/ Tail(engine.subscriptions) = <<>>


\* ============================================================= the database
\* everything but the store
outside_store ==
    <<now, ticks, rate_limiter, scrape_vars, limiter_vars, alert_vars,
      scheduler, mcp_channel, webhook, fx, trigger,
      final_vars>>

\* nothing but the later parts has started
InitEarlier ==
    /\ now = 0
    /\ ticks = 0
    /\ rate_limiter = [request_times |-> <<>>]
    /\ NoScraping
    /\ NoCallers
    /\ NoEngine

InitStore == InitEarlier /\ NoLater

\* the URLs of the bestseller page, in its order
BestsellerUrls == <<"A1", "A2">>

\* the runs that are scheduler jobs, with a try/except around each URL
JobRuns == {"discover", "metrics"}

\* the slip of a products table without its unique constraint
no_unique_constraint(products, pending, asin) == "ok"

\* uq_products_platform_asin, as the database enforces it on an insert: the
\* insert fails on a committed row of the same key and waits for a row of
\* the same key that is not committed yet
uq_products_platform_asin(products, pending, asin) ==
    IF products[asin] > 0 THEN "IntegrityError"
    ELSE IF \E w \in DOMAIN pending : pending[w] = asin THEN "wait"
    ELSE "ok"

\* ProductRepository.get_by_asin
get_by_asin(products, asin) == products[asin] > 0

\* ProductRepository.get_all_by_platform: the products of the platform
get_all_by_platform(products) ==
    SelectSeq(BestsellerUrls, LAMBDA a : products[a] > 0)

\* how the scrape of a URL can end: trigger_scrape calls scrape_product,
\* which can raise; the others call scrape_with_retry
scrape_outcomes(w) ==
    IF w = "trigger" THEN {"product", "None", "raise"} ELSE {"product", "None"}

\* the run after the URL it was at: the loop of a job or of trigger_scrape
\* goes to the next URL, analyze_product has only the one
AfterUrl(w, r) ==
    [r EXCEPT !.urls = Tail(@),
              !.pc = CASE w = "metrics" -> "scrape"
                       [] w = "analyze" -> "done"
                       [] OTHER -> "check"]

\* the run after an exception at its URL: a job catches it per URL,
\* trigger_scrape per category, analyze_product around its scrape
AfterError(w, r, error) ==
    IF w \in JobRuns
    THEN [AfterUrl(w, r) EXCEPT !.error = error]
    ELSE [r EXCEPT !.pc = "done", !.urls = <<>>, !.error = error]

\* a flush that raises leaves the session unusable until rollback()
Flushed(r, error) == [r EXCEPT !.session = "failed", !.error = error]

\* the scrape of the bestseller page and the opening of the session; for
\* analyze_product the URL of the request; for collect_metrics the query
run_start(w) ==
    /\ store.run[w].pc = "idle"
    /\ \E url \in Asins :
         store' = [store EXCEPT !.run[w] =
            CASE w = "metrics" ->
                   [IdleRun EXCEPT !.pc = "scrape",
                       !.urls = get_all_by_platform(store.products)]
              [] w = "analyze" ->
                   [IdleRun EXCEPT !.pc = "check", !.urls = <<url>>]
              [] OTHER ->
                   [IdleRun EXCEPT !.pc = "check", !.urls = BestsellerUrls]]
    /\ UNCHANGED outside_store

\* existing = await product_repo.get_by_asin(asin, platform)
run_check(w) ==
    /\ store.run[w].pc = "check"
    /\ store.run[w].urls # <<>>
    /\ LET r == store.run[w]
           asin == Head(r.urls)
       IN store' = [store EXCEPT !.run[w] =
            IF r.session = "failed"
            THEN [AfterError(w, r, "PendingRollbackError") EXCEPT
                     !.collateral = @ + 1]
            ELSE IF get_by_asin(store.products, asin)
            THEN AfterUrl(w, r)
            ELSE [r EXCEPT !.pc = "scrape"]]
    /\ UNCHANGED outside_store

\* product_data = await scraper.scrape_with_retry(url)
run_scrape(w) ==
    /\ store.run[w].pc = "scrape"
    /\ store.run[w].urls # <<>>
    /\ LET r == store.run[w]
       IN \E product_data \in scrape_outcomes(w) :
            store' = [store EXCEPT !.run[w] =
               CASE product_data = "raise" -> AfterError(w, r, "scrape")
                 [] product_data = "None" -> AfterUrl(w, r)
                 [] OTHER -> [r EXCEPT !.pc =
                       IF w = "metrics" THEN "metric" ELSE "create"]]
    /\ UNCHANGED outside_store

\* how a flush can end apart from the unique constraint: the row goes in, or
\* the database refuses it (a null in a NOT NULL column, an id too long)
flush_outcomes == {"ok", "DataError"}

\* await product_repo.create(...): the flush of the new Product row
run_create(w) ==
    /\ store.run[w].pc = "create"
    /\ LET r == store.run[w]
           asin == Head(r.urls)
           unique == uq_products_platform_asin(store.products,
                                               store.pending, asin)
       IN \E flush \in flush_outcomes :
            IF flush # "ok"
            THEN store' = [store EXCEPT !.run[w] =
                    AfterError(w, Flushed(r, flush), flush)]
            ELSE /\ unique # "wait"
                 /\ store' =
                      IF unique = "ok"
                      THEN [store EXCEPT !.pending[w] = asin,
                                         !.run[w].pc = "commit"]
                      ELSE [store EXCEPT !.run[w] =
                              AfterError(w, Flushed(r, unique), unique)]
    /\ UNCHANGED outside_store

\* await session.commit() of the Product row
run_commit(w) ==
    /\ store.run[w].pc = "commit"
    /\ LET r == store.run[w]
           asin == Head(r.urls)
       IN store' = [store EXCEPT
            !.products[asin] = @ + 1,
            !.pending[w] = "",
            !.run[w] = IF w = "analyze" THEN [r EXCEPT !.pc = "metric"]
                       ELSE AfterUrl(w, r)]
    /\ UNCHANGED outside_store

\* await metrics_repo.create(product_id, date.today(), ...) and the commit
\* that follows it
run_metric(w) ==
    /\ store.run[w].pc = "metric"
    /\ LET r == store.run[w]
           asin == Head(r.urls)
       IN IF r.session = "failed"
          THEN store' = [store EXCEPT !.run[w] =
                  [AfterError(w, r, "PendingRollbackError") EXCEPT
                      !.collateral = @ + 1]]
          ELSE \E flush \in flush_outcomes :
                 store' =
                    IF flush = "ok"
                    THEN [store EXCEPT
                            !.daily_metrics[asin][store.today] = @ + 1,
                            !.run[w] = AfterUrl(w, r)]
                    ELSE [store EXCEPT !.run[w] =
                            AfterError(w, Flushed(r, flush), flush)]
    /\ UNCHANGED outside_store

\* the loop is over
run_return(w) ==
    /\ store.run[w].pc \in {"check", "scrape"}
    /\ store.run[w].urls = <<>>
    /\ store' = [store EXCEPT !.run[w].pc = "done"]
    /\ UNCHANGED outside_store

\* a job is cancelled: its session closes and what it had not committed goes
run_cancel(w) ==
    /\ w \in JobRuns
    /\ store.run[w].pc \notin {"idle", "done", "cancelled"}
    /\ store' = [store EXCEPT !.run[w].pc = "cancelled", !.pending[w] = ""]
    /\ UNCHANGED outside_store

NextDay ==
    /\ store.today < MaxDays
    /\ store' = [store EXCEPT !.today = @ + 1]
    /\ UNCHANGED outside_store

NextStore ==
    \/ \E w \in Workers : run_start(w)
    \/ \E w \in Workers : run_check(w)
    \/ \E w \in Workers : run_scrape(w)
    \/ \E w \in Workers : run_create(w)
    \/ \E w \in Workers : run_commit(w)
    \/ \E w \in Workers : run_metric(w)
    \/ \E w \in Workers : run_return(w)
    \/ \E w \in Workers : run_cancel(w)
    \/ NextDay

SpecStore == InitStore /\ [][NextStore]_vars

\* C12: there is never more than one committed Product row of a
\* (platform, external id)
C12_OneProductPerKey == \A a \in Asins : store.products[a] <= 1

\* a run tried to insert a product that another run had committed since it
\* looked, and was refused
C12_Witness ==
    \E w \in Workers, a \in Asins :
        /\ store.run[w].error = "IntegrityError"
        /\ store.products[a] = 1

\* C13: there is never more than one DailyMetric row of a (product, date)
C13_OneMetricPerDay ==
    \A a \in Asins, d \in Days : store.daily_metrics[a][d] <= 1

\* C15: no URL of a job is given up on account of an error at an earlier URL
C15_ErrorsStayWithTheirProduct ==
    \A w \in JobRuns : store.run[w].collateral = 0


\* ============================================================ the scheduler
outside_scheduler ==
    <<now, ticks, rate_limiter, scrape_vars, limiter_vars, alert_vars,
      store, mcp_channel, webhook, fx, trigger,
      final_vars>>

InitScheduler == InitEarlier /\ NoLater

\* a job's trigger fires: the scheduler starts the job function unless the
\* run it started last is still going (add_job is called without
\* max_instances, which leaves it at one run per job id)
job_fire(job) ==
    /\ scheduler[job] = "waiting"
    /\ scheduler' = [scheduler EXCEPT ![job] = "executing"]
    /\ UNCHANGED outside_scheduler

\* the job function returns or raises
job_over(job) ==
    /\ scheduler[job] = "executing"
    /\ scheduler' = [scheduler EXCEPT ![job] = "waiting"]
    /\ UNCHANGED outside_scheduler

NextScheduler ==
    \/ \E job \in ScheduledJobs : job_fire(job)
    \/ \E job \in ScheduledJobs : job_over(job)

SpecScheduler == InitScheduler /\ [][NextScheduler]_vars

\* C14: no two jobs of one platform are executing at the same time
C14_OneJobPerPlatform ==
    \A j1, j2 \in ScheduledJobs :
        ( /\ j1 # j2
          /\ scheduler[j1] = "executing"
          /\ scheduler[j2] = "executing" ) => JobPlatform(j1) # JobPlatform(j2)


\* ========================================================== the MCP channel
outside_mcp ==
    <<now, ticks, rate_limiter, scrape_vars, limiter_vars, alert_vars,
      store, scheduler, webhook, fx, trigger,
      final_vars>>

InitMcp == InitEarlier /\ NoLater

\* subscriptions and their users: two of one user, one of another
McpSubscriptions == {"s1", "s2", "s3"}
user_id(subscription) == IF subscription = "s3" THEN "u2" ELSE "u1"

\* the slip of a send that starts the user's list afresh
queue_restarted(pending, user, payload) == Put(pending, user, <<payload>>)

\* MCPChannel.send, the body of its try: the queue with the payload appended
queue_payload(pending, user, payload) ==
    Put(pending, user, Append(Get(pending, user, <<>>), payload))

get_pending_alerts(pending, user) == Get(pending, user, <<>>)

\* the slip of counting after the queue was emptied
clear_alerts_counted_late(pending, user) ==
    [count |-> 0, pending |-> Put(pending, user, <<>>)]

\* clear_alerts: what it returns and the queues it leaves
clear_alerts(pending, user) ==
    [count |-> Len(Get(pending, user, <<>>)),
     pending |-> Put(pending, user, <<>>)]

\* a call of send: it has no await, so it runs from start to end with no
\* other task in between; built: whether the payload could be built
mcp_send(subscription) ==
    /\ mcp_channel.sends < MaxSends
    /\ \E built \in BOOLEAN :
         LET user == user_id(subscription)
             payload == mcp_channel.sends + 1
         IN mcp_channel' =
              IF built
              THEN [mcp_channel EXCEPT
                      !._pending_alerts = queue_payload(@, user, payload),
                      !.sends = @ + 1,
                      !.accepted[user] = @ + 1,
                      !.op = "send True"]
              ELSE [mcp_channel EXCEPT !.sends = @ + 1, !.op = "send False"]
    /\ UNCHANGED outside_mcp

mcp_get_pending_alerts(user) ==
    /\ mcp_channel.op # "get_pending_alerts"
    /\ mcp_channel' = [mcp_channel EXCEPT !.op = "get_pending_alerts"]
    /\ UNCHANGED outside_mcp

mcp_clear_alerts(user) ==
    /\ mcp_channel.op # "clear_alerts"
    /\ LET result == clear_alerts(mcp_channel._pending_alerts, user)
       IN mcp_channel' = [mcp_channel EXCEPT
            !._pending_alerts = result.pending,
            !.accepted[user] = 0,
            !.cleared = [returned |-> result.count,
                         removed |-> Len(get_pending_alerts(
                                      mcp_channel._pending_alerts, user))],
            !.op = "clear_alerts"]
    /\ UNCHANGED outside_mcp

NextMcp ==
    \/ \E subscription \in McpSubscriptions : mcp_send(subscription)
    \/ \E user \in Users : mcp_get_pending_alerts(user)
    \/ \E user \in Users : mcp_clear_alerts(user)

SpecMcp == InitMcp /\ [][NextMcp]_vars

\* C16: a user's queue holds as many payloads as sends for the user have
\* returned True since the last clear_alerts, none of them twice, and
\* clear_alerts returns the number of payloads it took out
C16_QueueMatchesSends ==
    /\ \A u \in Users :
          LET queue == get_pending_alerts(mcp_channel._pending_alerts, u)
          IN /\ Len(queue) = mcp_channel.accepted[u]
             /\ \A i, j \in 1..Len(queue) : queue[i] = queue[j] => i = j
    /\ mcp_channel.cleared.returned = mcp_channel.cleared.removed

\* two subscriptions of one user have queued payloads, and a clear_alerts
\* took payloads out
C16_Witness ==
    /\ Len(get_pending_alerts(mcp_channel._pending_alerts, "u1")) >= 2
    /\ mcp_channel.cleared.removed >= 1


\* ====================================================== the webhook channel
outside_webhook ==
    <<now, ticks, rate_limiter, scrape_vars, limiter_vars, alert_vars,
      store, scheduler, mcp_channel, fx, trigger,
      final_vars>>

InitWebhook == InitEarlier /\ NoLater

\* how client.post can end: a response with a status, an httpx.RequestError,
\* another exception
StatusCodes == {200, 299, 300, 500}
PostOutcomes ==
    [kind : {"response"}, status : StatusCodes]
        \cup { [kind |-> "RequestError", status |-> 0],
               [kind |-> "Exception", status |-> 0] }

\* response.status_code < 300
is_success(post) == post.kind = "response" /\ post.status < 300

\* send is called; a subscription without webhook_url gets False at once
webhook_send ==
    /\ webhook.pc = "idle"
    /\ \E has_url \in BOOLEAN :
         webhook' = IF has_url
                    THEN [IdleWebhook EXCEPT !.pc = "post"]
                    ELSE [IdleWebhook EXCEPT !.pc = "returned",
                                             !.result = "False"]
    /\ UNCHANGED outside_webhook

\* one round of the loop: the POST and what follows from how it ends
webhook_post ==
    /\ webhook.pc = "post"
    /\ webhook.attempt < retries
    /\ \E post \in PostOutcomes :
         LET posted == [webhook EXCEPT !.posts = Append(@, post),
                                       !.attempt = @ + 1]
         IN webhook' =
              IF is_success(post)
              THEN [posted EXCEPT !.pc = "returned", !.result = "True"]
              ELSE IF post.kind = "Exception"
              THEN [posted EXCEPT !.pc = "returned", !.result = "False"]
              ELSE posted
    /\ UNCHANGED outside_webhook

\* the loop has run out: return False
webhook_return ==
    /\ webhook.pc = "post"
    /\ webhook.attempt >= retries
    /\ webhook' = [webhook EXCEPT !.pc = "returned", !.result = "False"]
    /\ UNCHANGED outside_webhook

NextWebhook ==
    \/ webhook_send
    \/ webhook_post
    \/ webhook_return

SpecWebhook == InitWebhook /\ [][NextWebhook]_vars

\* C17: a send posts at most three times; every POST but the last ended in
\* a request error; send returns True exactly when a POST got a status
\* below 300
C17_RetryOnlyOnRequestError ==
    /\ Len(webhook.posts) <= 3
    /\ \A i \in 1..(Len(webhook.posts) - 1) :
          webhook.posts[i].kind = "RequestError"
    /\ webhook.pc = "returned" =>
          (webhook.result = "True" <=>
              \E i \in 1..Len(webhook.posts) :
                  /\ webhook.posts[i].kind = "response"
                  /\ webhook.posts[i].status < 300)


\* ================================================== the currency converters
outside_fx ==
    <<now, ticks, rate_limiter, scrape_vars, limiter_vars, alert_vars,
      store, scheduler, mcp_channel, webhook, trigger,
      final_vars>>

InitFx == InitEarlier /\ NoLater

FallbackKeys ==
    { <<"USD", "INR">>, <<"INR", "USD">>, <<"USD", "EUR">>, <<"EUR", "USD">> }

FALLBACK_RATES ==
    [k \in FallbackKeys |->
        CASE k = <<"USD", "INR">> -> 8300000
          [] k = <<"INR", "USD">> -> 1200
          [] k = <<"USD", "EUR">> -> 92000
          [] k = <<"EUR", "USD">> -> 109000]

\* FALLBACK_RATES.get(key, Decimal("1"))
fallback_get(key) ==
    IF key \in FallbackKeys THEN FALLBACK_RATES[key] ELSE DecimalUnit

\* what _fetch_live_rate can return when it does not raise
LiveRates == {1100, 1250}

\* the except branch of get_rate
fallback(pair) ==
    IF pair \in FallbackKeys
    THEN [rate |-> FALLBACK_RATES[pair], source |-> "fallback"]
    ELSE IF pair[1] # "USD" /\ pair[2] # "USD"
    THEN [rate |-> (fallback_get(<<pair[1], "USD">>)
                        * fallback_get(<<"USD", pair[2]>>)) \div DecimalUnit,
          source |-> "fallback_calculated"]
    ELSE [rate |-> DecimalUnit, source |-> "unknown"]

\* get_rate up to its await: identity, cache hit, or the live lookup begins
get_rate(c) ==
    /\ fx.call[c].pc \in {"idle", "returned"}
    /\ fx.calls < MaxCalls
    /\ \E a \in Analyzers, pair \in FxPairs :
         LET began == [IdleCall EXCEPT !.analyzer = a, !.pair = pair,
                                       !.known = fx.first[pair]]
             after ==
               IF pair[1] = pair[2]
               THEN [began EXCEPT !.pc = "returned", !.rate = DecimalUnit,
                                  !.source = "identity"]
               ELSE IF fx._cache[a][pair] # 0
               THEN [began EXCEPT !.pc = "returned",
                                  !.rate = fx._cache[a][pair],
                                  !.source = "cache"]
               ELSE [began EXCEPT !.pc = "fetch"]
         IN fx' = [fx EXCEPT !.call[c] = after, !.calls = @ + 1]
    /\ UNCHANGED outside_fx

\* _fetch_live_rate returns a rate: it is put in the converter's cache
fetch_live_rate_ok(c) ==
    /\ fx.call[c].pc = "fetch"
    /\ \E rate \in LiveRates :
         LET a == fx.call[c].analyzer
             pair == fx.call[c].pair
         IN fx' = [fx EXCEPT
                !._cache[a][pair] = rate,
                !.first[pair] = IF @ = 0 THEN rate ELSE @,
                !.overwritten = @ \/ fx._cache[a][pair] # 0,
                !.call[c] = [@ EXCEPT !.pc = "returned", !.live = "ok",
                                      !.rate = rate, !.source = "api"]]
    /\ UNCHANGED outside_fx

\* _fetch_live_rate raises: the static rates
fetch_live_rate_raise(c) ==
    /\ fx.call[c].pc = "fetch"
    /\ LET found == fallback(fx.call[c].pair)
       IN fx' = [fx EXCEPT
              !.call[c] = [@ EXCEPT !.pc = "returned", !.live = "failed",
                                    !.rate = found.rate,
                                    !.source = found.source]]
    /\ UNCHANGED outside_fx

NextFx ==
    \/ \E c \in FxCalls : get_rate(c)
    \/ \E c \in FxCalls : fetch_live_rate_ok(c)
    \/ \E c \in FxCalls : fetch_live_rate_raise(c)

SpecFx == InitFx /\ [][NextFx]_vars

\* a call that began after some converter of the process had cached a rate
\* for its pair returns that rate from the cache
FxCachedForAll ==
    \A c \in FxCalls :
        (fx.call[c].pc = "returned" /\ fx.call[c].known # 0) =>
            /\ fx.call[c].source = "cache"
            /\ fx.call[c].rate = fx.call[c].known

\* no entry of a cache is assigned a second time
FxNeverOverwritten == ~fx.overwritten

\* the static rates are used only after the live lookup failed
FxFallbackAfterFailure ==
    \A c \in FxCalls :
        (fx.call[c].pc = "returned"
            /\ fx.call[c].source \in {"fallback", "fallback_calculated"}) =>
            fx.call[c].live = "failed"

\* C18: once a rate for a pair is cached, every later get_rate for the pair,
\* from any analyzer, returns it without a live lookup; no entry is written
\* twice, even when two lookups for the pair both miss; the static rates are
\* used only when the live lookup fails
C18_WriteOnceProcessWide ==
    /\ FxCachedForAll
    /\ FxNeverOverwritten
    /\ FxFallbackAfterFailure


\* ============================================================= the triggers
outside_trigger ==
    <<now, ticks, rate_limiter, scrape_vars, limiter_vars, alert_vars,
      store, scheduler, mcp_channel, webhook, fx,
      final_vars>>

\* prices in cents, thresholds in cents and in percent
Prices == {0, 8500, 10000}
ThresholdValues == {<<>>, <<0>>, <<8500>>}
ThresholdPercents == {<<>>, <<0>>, <<10>>}
TriggerTypes == {"price_drop", "stockout"}
SubscriptionsOfTrigger ==
    [alert_type : TriggerTypes, threshold_value : ThresholdValues,
     threshold_percent : ThresholdPercents]
Metrics == [in_stock : BOOLEAN, price : Prices]

\* Python's truth value of an Optional number: None and 0 are false
truthy(optional) == optional # <<>> /\ optional[1] # 0

\* return None
NoResult == [triggered |-> FALSE, event_type |-> "", drop_percent |-> 0]
TriggerResult(event_type, drop_percent) ==
    [triggered |-> TRUE, event_type |-> event_type,
     drop_percent |-> drop_percent]

\* PriceDropTrigger.evaluate.  On Prices the quotient (previous - current)
\* / previous * 100 is a whole number whenever the result carries it, and
\* the comparison with the threshold is taken without the division
PriceDropTrigger_evaluate(subscription, current_metric, previous_metric) ==
    LET current_price == current_metric.price
    IN IF /\ truthy(subscription.threshold_value)
          /\ current_price <= subscription.threshold_value[1]
       THEN TriggerResult("price_below_threshold", 0)
       ELSE IF /\ previous_metric # <<>>
               /\ truthy(subscription.threshold_percent)
               /\ previous_metric[1].price > 0
               /\ (previous_metric[1].price - current_price) * 100
                     >= subscription.threshold_percent[1]
                            * previous_metric[1].price
       THEN TriggerResult("price_drop_percent",
                ((previous_metric[1].price - current_price) * 100)
                    \div previous_metric[1].price)
       ELSE NoResult

StockoutTrigger_every_day(subscription, current_metric, previous_metric) ==
    IF ~current_metric.in_stock
    THEN TriggerResult("stockout", 0)
    ELSE IF /\ current_metric.in_stock
            /\ previous_metric # <<>>
            /\ ~previous_metric[1].in_stock
    THEN TriggerResult("back_in_stock", 0)
    ELSE NoResult

\* StockoutTrigger.evaluate
StockoutTrigger_evaluate(subscription, current_metric, previous_metric) ==
    IF /\ ~current_metric.in_stock
       /\ (previous_metric = <<>> \/ previous_metric[1].in_stock)
    THEN TriggerResult("stockout", 0)
    ELSE IF /\ current_metric.in_stock
            /\ previous_metric # <<>>
            /\ ~previous_metric[1].in_stock
    THEN TriggerResult("back_in_stock", 0)
    ELSE NoResult

\* get_trigger(subscription.alert_type).evaluate(...)
evaluate(subscription, current_metric, previous_metric) ==
    IF subscription.alert_type = "price_drop"
    THEN PriceDropTrigger_evaluate(subscription, current_metric,
                                   previous_metric)
    ELSE StockoutTrigger_evaluate(subscription, current_metric,
                                  previous_metric)

InitTrigger ==
    /\ InitEarlier
    /\ store = IdleStore
    /\ scheduler = IdleScheduler
    /\ mcp_channel = IdleMcp
    /\ webhook = IdleWebhook
    /\ fx = IdleFx
    /\ NoFinal
    /\ \E subscription \in SubscriptionsOfTrigger :
         trigger = [IdleTrigger EXCEPT !.subscription = subscription]

\* the metric of the next day is evaluated against the one before it
evaluate_metric ==
    /\ Len(trigger.metrics) < MaxMetrics
    /\ \E current_metric \in Metrics :
         LET previous_metric ==
               IF trigger.metrics = <<>>
               THEN <<>>
               ELSE << trigger.metrics[Len(trigger.metrics)] >>
         IN trigger' =
              [trigger EXCEPT
                 !.metrics = Append(@, current_metric),
                 !.events = Append(@, evaluate(trigger.subscription,
                                               current_metric,
                                               previous_metric))]
    /\ UNCHANGED outside_trigger

NextTrigger == evaluate_metric

SpecTrigger == InitTrigger /\ [][NextTrigger]_vars

OfStockout == trigger.subscription.alert_type = "stockout"
OfPriceDrop == trigger.subscription.alert_type = "price_drop"
Evaluated == 1..Len(trigger.metrics)

\* days first..last are a whole run of out-of-stock days
OutOfStockRun(first, last) ==
    /\ first <= last
    /\ \A i \in first..last : ~trigger.metrics[i].in_stock
    /\ first = 1 \/ trigger.metrics[first - 1].in_stock
    /\ last = Len(trigger.metrics) \/ trigger.metrics[last + 1].in_stock

\* C19: evaluated day after day, the stockout trigger gives `stockout` only
\* for an out-of-stock day whose previous day is absent or in stock,
\* `back_in_stock` only for an in-stock day after an out-of-stock day,
\* nothing when the two days agree; a run of out-of-stock days gives
\* exactly one stockout
C19_OneStockoutPerRun ==
    OfStockout =>
        /\ \A i \in Evaluated :
              /\ trigger.events[i].event_type = "stockout" =>
                    /\ ~trigger.metrics[i].in_stock
                    /\ i = 1 \/ trigger.metrics[i - 1].in_stock
              /\ trigger.events[i].event_type = "back_in_stock" =>
                    /\ trigger.metrics[i].in_stock
                    /\ i > 1
                    /\ ~trigger.metrics[i - 1].in_stock
              /\ (i > 1 /\ trigger.metrics[i].in_stock
                              = trigger.metrics[i - 1].in_stock) =>
                    ~trigger.events[i].triggered
        /\ \A first, last \in Evaluated :
              OutOfStockRun(first, last) =>
                  Cardinality({ i \in first..last :
                      trigger.events[i].event_type = "stockout" }) = 1

C19_Witness ==
    /\ OfStockout
    /\ Len(trigger.metrics) = 4
    /\ trigger.metrics[1].in_stock
    /\ ~trigger.metrics[2].in_stock
    /\ ~trigger.metrics[3].in_stock
    /\ trigger.metrics[4].in_stock
    /\ trigger.events[2].event_type = "stockout"
    /\ ~trigger.events[3].triggered
    /\ trigger.events[4].event_type = "back_in_stock"

\* what the statement of price_drop gives for day i
price_drop_event(i) ==
    LET subscription == trigger.subscription
        current == trigger.metrics[i]
    IN IF /\ subscription.threshold_value # <<>>
          /\ current.price <= subscription.threshold_value[1]
       THEN "price_below_threshold"
       ELSE IF /\ i > 1
               /\ subscription.threshold_percent # <<>>
               /\ trigger.metrics[i - 1].price > 0
               /\ (trigger.metrics[i - 1].price - current.price) * 100
                     >= subscription.threshold_percent[1]
                            * trigger.metrics[i - 1].price
       THEN "price_drop_percent"
       ELSE ""

\* C20: a price_drop evaluation gives `price_below_threshold` when the
\* current price is at most threshold_value, otherwise `price_drop_percent`
\* when the previous price is positive and the drop in percent is at least
\* threshold_percent, otherwise nothing
C20_PriceDropEvent ==
    OfPriceDrop =>
        \A i \in Evaluated :
            trigger.events[i].event_type = price_drop_event(i)


\* ========================================================= the rank trigger
before_final ==
    <<now, ticks, rate_limiter, scrape_vars, limiter_vars, alert_vars,
      store, scheduler, mcp_channel, webhook, fx, trigger>>

outside_rank_trigger ==
    <<before_final, subscriptions, extractor, arbitrage, signals, discount>>

InitRank == InitEarlier /\ NoLater

THRESHOLDS == <<100, 500, 1000, 5000, 10000, 50000, 100000>>

\* DailyMetric.rank: None, or a rank around the thresholds
Ranks ==
    {<<>>, <<1>>, <<99>>, <<100>>, <<101>>, <<500>>, <<501>>, <<100001>>}

\* the loop over THRESHOLDS from the index-th on: the first threshold that
\* meets one of the two conditions decides
RECURSIVE first_crossing(_, _, _)
first_crossing(index, previous_rank, current_rank) ==
    IF index > Len(THRESHOLDS)
    THEN NoResult
    ELSE LET threshold == THRESHOLDS[index]
         IN IF previous_rank > threshold /\ threshold >= current_rank
            THEN TriggerResult("entered_top_rank", 0)
            ELSE IF previous_rank < threshold /\ threshold <= current_rank
            THEN TriggerResult("exited_top_rank", 0)
            ELSE first_crossing(index + 1, previous_rank, current_rank)

\* RankChangeTrigger.evaluate on the ranks of the two metrics; a missing
\* previous metric is a missing rank here
RankChangeTrigger_evaluate(current_rank, previous_rank) ==
    IF ~truthy(previous_rank) \/ ~truthy(current_rank)
    THEN NoResult
    ELSE first_crossing(1, previous_rank[1], current_rank[1])

\* the metric of the next day is evaluated against the one before it
evaluate_rank ==
    /\ Len(rank_trigger.metrics) < MaxRanks
    /\ \E current_rank \in Ranks :
         LET previous_rank ==
               IF rank_trigger.metrics = <<>>
               THEN <<>>
               ELSE rank_trigger.metrics[Len(rank_trigger.metrics)]
         IN rank_trigger' =
              [metrics |-> Append(rank_trigger.metrics, current_rank),
               events |-> Append(rank_trigger.events,
                     RankChangeTrigger_evaluate(current_rank,
                                                previous_rank))]
    /\ UNCHANGED outside_rank_trigger

NextRank == evaluate_rank

SpecRank == InitRank /\ [][NextRank]_vars

ThresholdSet == { THRESHOLDS[k] : k \in 1..Len(THRESHOLDS) }

\* a rank is in the top N
InTop(rank, threshold) == rank <= threshold

\* C21: with both ranks present, rank_change gives entered_top_rank whenever
\* the rank moves from outside a top-N band into it, exited_top_rank
\* whenever it moves from inside a band out of it, a rank being inside the
\* band in the same sense both times, and nothing when the two ranks lie in
\* the same bands or one of them is missing
C21_SameBandBothWays ==
    \A i \in 1..Len(rank_trigger.metrics) :
        LET current == rank_trigger.metrics[i]
            previous == IF i = 1 THEN <<>> ELSE rank_trigger.metrics[i - 1]
            event == rank_trigger.events[i].event_type
        IN IF current = <<>> \/ previous = <<>>
           THEN event = ""
           ELSE /\ (\E n \in ThresholdSet :
                       ~InTop(previous[1], n) /\ InTop(current[1], n))
                    => event = "entered_top_rank"
                /\ (\E n \in ThresholdSet :
                       InTop(previous[1], n) /\ ~InTop(current[1], n))
                    => event = "exited_top_rank"
                /\ (\A n \in ThresholdSet :
                       InTop(previous[1], n) = InTop(current[1], n))
                    => event = ""


\* ============================================================= deactivation
outside_subscriptions ==
    <<before_final, rank_trigger, extractor, arbitrage, signals, discount>>

InitSubscriptions == InitEarlier /\ NoLater

\* AlertRepository.get_product_subscriptions: the ids of the rows whose
\* is_active is true, in the order of the table
RECURSIVE active_rows(_, _)
active_rows(is_active, ids) ==
    IF ids = <<>>
    THEN <<>>
    ELSE IF is_active[Head(ids)]
    THEN <<Head(ids)>> \o active_rows(is_active, Tail(ids))
    ELSE active_rows(is_active, Tail(ids))

get_product_subscriptions(is_active, ids) == active_rows(is_active, ids)

SubscriptionRows == <<"s1", "s2">>

\* what happened to a subscription, and whether it was active then
Done(subscription) ==
    [subscription |-> subscription,
     is_active |-> subscriptions.is_active[subscription]]

\* process_product_metrics up to the end of its query
subs_process_product_metrics ==
    /\ subscriptions.pc = "idle"
    /\ subscriptions.processed < MaxProcessed
    /\ subscriptions' =
          [subscriptions EXCEPT
             !.pc = "loop",
             !.processed = @ + 1,
             !.list = get_product_subscriptions(subscriptions.is_active,
                                                SubscriptionRows)]
    /\ UNCHANGED outside_subscriptions

\* _evaluate_subscription for the next subscription of the list, up to the
\* flush of its event: the trigger fires or not
subs_evaluate_subscription ==
    /\ subscriptions.pc = "loop"
    /\ subscriptions.list # <<>>
    /\ \E triggered \in BOOLEAN :
         LET subscription == Head(subscriptions.list)
         IN subscriptions' =
              IF triggered
              THEN [subscriptions EXCEPT
                      !.pc = "send",
                      !.event = subscription,
                      !.list = Tail(@),
                      !.events = Append(@, Done(subscription))]
              ELSE [subscriptions EXCEPT !.list = Tail(@)]
    /\ UNCHANGED outside_subscriptions

\* _send_notification for the event just created
subs_send_notification ==
    /\ subscriptions.pc = "send"
    /\ subscriptions' =
          [subscriptions EXCEPT
             !.pc = "loop",
             !.event = "",
             !.sends = Append(@, Done(subscriptions.event))]
    /\ UNCHANGED outside_subscriptions

\* the list is through: return triggered_events
subs_return ==
    /\ subscriptions.pc = "loop"
    /\ subscriptions.list = <<>>
    /\ subscriptions' = [subscriptions EXCEPT !.pc = "idle"]
    /\ UNCHANGED outside_subscriptions

\* unsubscribe_alert: AlertRepository.deactivate in a session of its own,
\* and the commit
deactivate(subscription) ==
    /\ subscriptions.is_active[subscription]
    /\ subscriptions' =
          [subscriptions EXCEPT !.is_active[subscription] = FALSE]
    /\ UNCHANGED outside_subscriptions

NextSubscriptions ==
    \/ subs_process_product_metrics
    \/ subs_evaluate_subscription
    \/ subs_send_notification
    \/ subs_return
    \/ \E subscription \in SubscriptionIds : deactivate(subscription)

SpecSubscriptions == InitSubscriptions /\ [][NextSubscriptions]_vars

\* C22: no AlertEvent is created and no notification is sent for a
\* subscription at a time when its is_active is false
C22_InactiveSkipped ==
    /\ \A i \in 1..Len(subscriptions.events) :
          subscriptions.events[i].is_active
    /\ \A i \in 1..Len(subscriptions.sends) :
          subscriptions.sends[i].is_active


\* =========================================================== the extractors
outside_extractor ==
    <<before_final, rank_trigger, subscriptions, arbitrage, signals,
      discount>>

InitExtractor == InitEarlier /\ NoLater

Extractors ==
    {"AmazonScraper", "FlipkartScraper", "EbayScraper", "WalmartScraper"}

\* a page as the extractor meets it: goto times out, the page is a block
\* page, or it loads; whether the URL carries a product id; the title and
\* the price the selectors give, <<>> when they give none
Pages ==
    [load : {"ok", "blocked", "timeout"},
     id : BOOLEAN,
     title : {<<>>, <<"Echo Dot">>},
     price : {<<>>, <<1999>>, <<8500>>}]

Record(title, price) == << [title |-> title, price |-> price] >>

\* `value or default`: every value of Pages is true in Python's sense
or_default(optional, default) ==
    IF optional # <<>> THEN optional[1] ELSE default

\* AmazonScraper.scrape_product and FlipkartScraper.scrape_product
amazon_scrape_product(page) ==
    IF page.load # "ok" \/ ~page.id \/ page.title = <<>>
    THEN <<>>
    ELSE Record(page.title[1], or_default(page.price, 0))

\* EbayScraper.scrape_product and WalmartScraper.scrape_product
ebay_scrape_product(page) ==
    IF page.load = "timeout"
    THEN <<>>
    ELSE Record(or_default(page.title, "Unknown Product"),
                or_default(page.price, 0))

scrape_product(scraper, page) ==
    IF scraper \in {"AmazonScraper", "FlipkartScraper"}
    THEN amazon_scrape_product(page)
    ELSE ebay_scrape_product(page)

\* one call of scrape_product
extract ==
    /\ extractor.pc = "idle"
    /\ \E scraper \in Extractors, page \in Pages :
         extractor' = [pc |-> "returned", scraper |-> scraper,
                       page |-> <<page>>,
                       result |-> scrape_product(scraper, page)]
    /\ UNCHANGED outside_extractor

NextExtractor == extract

SpecExtractor == InitExtractor /\ [][NextExtractor]_vars

\* C23: scrape_product returns None whenever the page gives no title or no
\* price, and a record it returns carries the title and the price of the
\* page
C23_NoPlaceholderRecord ==
    extractor.pc = "returned" =>
        LET page == extractor.page[1]
        IN /\ (page.title = <<>> \/ page.price = <<>>) =>
                  extractor.result = <<>>
           /\ extractor.result # <<>> =>
                  /\ page.title # <<>>
                  /\ page.price # <<>>
                  /\ extractor.result[1].title = page.title[1]
                  /\ extractor.result[1].price = page.price[1]


\* ==================================================== the arbitrage analyzer
\* Money: price_usd and price are in cents; price_with_tax_usd, shipping,
\* import tax and margins are in hundredths of a cent, which holds every
\* product of a price in cents and a rate in percent exactly.  Percentages
\* that the code rounds to one decimal are in tenths of a percent.
outside_arbitrage ==
    <<before_final, rank_trigger, subscriptions, extractor, signals,
      discount>>

InitArbitrage == InitEarlier /\ NoLater

MIN_MARGIN_PERCENT == 15
\* opportunities[:5]
TopOpportunities == 5

\* round(n / d) for n >= 0, ties to the even neighbour
round_half_even(n, d) ==
    LET q == n \div d
        r == n % d
    IN IF 2 * r > d \/ (2 * r = d /\ q % 2 = 1) THEN q + 1 ELSE q

\* round(n / d * 1000) for any n, without leaving 32 bits: the whole
\* percents first, the tenth from the remainder
tenths_of_percent(n, d) ==
    LET a == IF n < 0 THEN 0 - n ELSE n
        whole == (a * 100) \div d
        rest == (a * 100) % d
        tenths == whole * 10 + round_half_even(rest * 10, d)
    IN IF n < 0 THEN 0 - tenths ELSE tenths

\* TAX_RATES, as 100 * (1 + rate); compare_amazon_flipkart writes the same
\* factors for US and IN
TaxCountries == {"US", "IN", "UK", "DE"}
TAX_RATES ==
    [c \in TaxCountries |->
        CASE c = "US" -> 108
          [] c = "IN" -> 118
          [] c = "UK" -> 120
          [] c = "DE" -> 119]

ShippingKeys ==
    { <<"US", "IN">>, <<"IN", "US">>, <<"US", "UK">>, <<"UK", "US">>,
      <<"US", "DE">>, <<"DE", "US">> }
SHIPPING_ESTIMATES ==
    [k \in ShippingKeys |->
        CASE k = <<"US", "IN">> -> 250000
          [] k = <<"IN", "US">> -> 300000
          [] k \in { <<"US", "UK">>, <<"UK", "US">> } -> 200000
          [] k \in { <<"US", "DE">>, <<"DE", "US">> } -> 220000]

no_shipping(from_country, to_country) == 0

\* estimate_shipping: the table, or 35.00
estimate_shipping(from_country, to_country) ==
    IF <<from_country, to_country>> \in ShippingKeys
    THEN SHIPPING_ESTIMATES[<<from_country, to_country>>]
    ELSE 350000

ArbitrageCategories == {"Electronics", "Books", "Garden"}
\* IMPORT_DUTY_RATES.get(category, IMPORT_DUTY_RATES["default"]), in percent
import_duty_rate(category) ==
    CASE category = "Electronics" -> 5
      [] category = "Books" -> 0
      [] OTHER -> 5

RegionalPrice(platform, country, price_usd, in_stock) ==
    [platform |-> platform, country |-> country, price_usd |-> price_usd,
     price_with_tax_usd |-> price_usd * TAX_RATES[country],
     in_stock |-> in_stock]

\* _calculate_opportunity.  margin_percent is the rounded field of the
\* result; is_profitable is decided on the unrounded quotient
_calculate_opportunity(buy, sell, category) ==
    LET price_diff == sell.price_with_tax_usd - buy.price_usd * 100
        shipping == estimate_shipping(buy.country, sell.country)
        import_tax == buy.price_usd * import_duty_rate(category)
        net_margin == price_diff - shipping - import_tax
    IN [buy_from |-> buy,
        sell_to |-> sell,
        net_margin_usd |-> net_margin,
        margin_percent |->
            IF buy.price_usd > 0
            THEN tenths_of_percent(net_margin, buy.price_usd * 100)
            ELSE 0,
        is_profitable |->
            /\ buy.price_usd > 0
            /\ net_margin * 100 >= MIN_MARGIN_PERCENT * buy.price_usd * 100]

\* sorted(regional_prices, key=price_usd): stable, ascending
RECURSIVE sorted_by_price(_)
sorted_by_price(prices) ==
    IF prices = <<>>
    THEN <<>>
    ELSE LET front == sorted_by_price(SubSeq(prices, 1, Len(prices) - 1))
             last == prices[Len(prices)]
             before == Cardinality({ i \in 1..Len(front) :
                                     front[i].price_usd <= last.price_usd })
         IN SubSeq(front, 1, before) \o <<last>>
                \o SubSeq(front, before + 1, Len(front))

\* opportunities.sort(key=margin_percent, reverse=True): stable, descending
RECURSIVE sorted_by_margin(_)
sorted_by_margin(opportunities) ==
    IF opportunities = <<>>
    THEN <<>>
    ELSE LET front == sorted_by_margin(
                          SubSeq(opportunities, 1, Len(opportunities) - 1))
             last == opportunities[Len(opportunities)]
             before == Cardinality({ i \in 1..Len(front) :
                           front[i].margin_percent >= last.margin_percent })
         IN SubSeq(front, 1, before) \o <<last>>
                \o SubSeq(front, before + 1, Len(front))

\* the two loops of _find_opportunities, in their order
viable(sorted_prices, category) ==
    LET n == Len(sorted_prices)
        buy_of(k) == sorted_prices[((k - 1) \div n) + 1]
        sell_of(k) == sorted_prices[((k - 1) % n) + 1]
        all == [k \in 1..(n * n) |->
                   _calculate_opportunity(buy_of(k), sell_of(k), category)]
        kept(o) == /\ o.buy_from.in_stock
                   /\ o.buy_from.country # o.sell_to.country
                   /\ o.is_profitable
    IN SelectSeq(all, kept)

find_all_opportunities(sorted_prices, category) ==
    sorted_by_margin(viable(sorted_prices, category))

_find_opportunities(sorted_prices, category) ==
    LET opportunities == sorted_by_margin(viable(sorted_prices, category))
    IN SubSeq(opportunities, 1,
              IF Len(opportunities) < TopOpportunities
              THEN Len(opportunities) ELSE TopOpportunities)

\* analyze_prices
analyze_prices(regional_prices, category) ==
    IF Len(regional_prices) < 2
    THEN [price_spread_percent |-> 0, arbitrage_opportunities |-> <<>>]
    ELSE LET sorted_prices == sorted_by_price(regional_prices)
             lowest == sorted_prices[1]
             highest == sorted_prices[Len(sorted_prices)]
         IN [price_spread_percent |->
                IF lowest.price_usd > 0
                THEN tenths_of_percent(highest.price_usd - lowest.price_usd,
                                       lowest.price_usd)
                ELSE 0,
             arbitrage_opportunities |->
                _find_opportunities(sorted_prices, category)]

\* CurrencyConverter.convert: round(amount * rate, 2)
convert(amount, rate) == round_half_even(amount * rate, DecimalUnit)

\* the regional prices compare_amazon_flipkart builds
amazon_flipkart_prices(amazon_price_usd, flipkart_price_inr, rate) ==
    << RegionalPrice("Amazon", "US", amazon_price_usd, TRUE),
       RegionalPrice("Flipkart", "IN", convert(flipkart_price_inr, rate),
                     TRUE) >>

\* the sellers a caller of analyze_prices may list, and what each may offer
Sellers ==
    << [platform |-> "Amazon", country |-> "US"],
       [platform |-> "Flipkart", country |-> "IN"],
       [platform |-> "Amazon UK", country |-> "UK"],
       [platform |-> "Amazon DE", country |-> "DE"],
       [platform |-> "Walmart", country |-> "US"] >>
PricesUsd == {6000, 11000, 17000, 100000}
Offers(k) ==
    {<<>>} \cup { <<[price_usd |-> p, in_stock |-> TRUE]>> : p \in PricesUsd }
           \cup (IF k <= 2
                 THEN { <<[price_usd |-> p, in_stock |-> FALSE]>> :
                            p \in PricesUsd }
                 ELSE {})

\* the list of the sellers that offer, in the order of Sellers
RECURSIVE listed(_, _)
listed(offers, k) ==
    IF k > Len(Sellers)
    THEN <<>>
    ELSE (IF offers[k] = <<>>
          THEN <<>>
          ELSE << RegionalPrice(Sellers[k].platform, Sellers[k].country,
                                offers[k][1].price_usd,
                                offers[k][1].in_stock) >>)
         \o listed(offers, k + 1)

\* a call of analyze_prices
call_analyze_prices ==
    /\ arbitrage.pc = "idle"
    /\ \E o1 \in Offers(1), o2 \in Offers(2), o3 \in Offers(3),
          o4 \in Offers(4), o5 \in Offers(5),
          category \in ArbitrageCategories :
         LET regional_prices == listed(<<o1, o2, o3, o4, o5>>, 1)
         IN arbitrage' =
              [pc |-> "returned",
               call |-> <<"analyze_prices">>,
               category |-> category,
               regional_prices |-> regional_prices,
               result |-> analyze_prices(regional_prices, category)]
    /\ UNCHANGED outside_arbitrage

AmazonPrices == {9999, 3000}
FlipkartPrices == {300000, 250000}
\* what get_rate(INR, USD) gives: the fallback rate 0.012, or a live rate
InrRates == {1200, 1250}

\* a call of compare_amazon_flipkart
call_compare_amazon_flipkart ==
    /\ arbitrage.pc = "idle"
    /\ \E amazon_price_usd \in AmazonPrices,
          flipkart_price_inr \in FlipkartPrices,
          rate \in InrRates, category \in ArbitrageCategories :
         LET regional_prices ==
               amazon_flipkart_prices(amazon_price_usd, flipkart_price_inr,
                                      rate)
         IN arbitrage' =
              [pc |-> "returned",
               call |-> <<"compare_amazon_flipkart", amazon_price_usd,
                          flipkart_price_inr, rate>>,
               category |-> category,
               regional_prices |-> regional_prices,
               result |-> analyze_prices(regional_prices, category)]
    /\ UNCHANGED outside_arbitrage

NextArbitrage ==
    \/ call_analyze_prices
    \/ call_compare_amazon_flipkart

SpecArbitrage == InitArbitrage /\ [][NextArbitrage]_vars

Analyzed == arbitrage.pc = "returned"

\* C24: two or more regional prices with one and the same USD price give a
\* spread of 0 and no arbitrage opportunity
C24_IdenticalPricesNoArbitrage ==
    (/\ Analyzed
     /\ Len(arbitrage.regional_prices) >= 2
     /\ \A i, j \in 1..Len(arbitrage.regional_prices) :
           arbitrage.regional_prices[i].price_usd
               = arbitrage.regional_prices[j].price_usd)
    => /\ arbitrage.result.price_spread_percent = 0
       /\ arbitrage.result.arbitrage_opportunities = <<>>


\* example D: amazon_us = $99.99, flipkart_in = Rs 3000 at 1 INR = $0.012,
\* Electronics
ExampleD ==
    /\ Analyzed
    /\ arbitrage.call = <<"compare_amazon_flipkart", 9999, 300000, 1200>>
    /\ arbitrage.category = "Electronics"

\* C25, as stated: for example D no direction is profitable and the
\* analyzer returns no arbitrage opportunity
C25_ExampleNotProfitable ==
    ExampleD =>
        /\ arbitrage.result.arbitrage_opportunities = <<>>
        /\ \A i, j \in 1..2 :
              i # j =>
                  ~_calculate_opportunity(arbitrage.regional_prices[i],
                                          arbitrage.regional_prices[j],
                                          "Electronics").is_profitable

\* C25, amended: for example D buying in the US and selling in India is not
\* profitable (margin -87.5%), buying in India at $36.00 and selling in the
\* US is (margin 111.6%), and the analyzer returns that one opportunity
C25_ExampleOneDirection ==
    ExampleD =>
        LET us == arbitrage.regional_prices[1]
            in == arbitrage.regional_prices[2]
            found == arbitrage.result.arbitrage_opportunities
        IN /\ in.price_usd = 3600
           /\ ~_calculate_opportunity(us, in, "Electronics").is_profitable
           /\ _calculate_opportunity(us, in, "Electronics").margin_percent
                 = 0 - 875
           /\ Len(found) = 1
           /\ found[1].buy_from = in
           /\ found[1].sell_to = us
           /\ found[1].margin_percent = 1116
           /\ found[1].is_profitable

C25_Witness ==
    /\ ExampleD
    /\ Len(arbitrage.result.arbitrage_opportunities) = 1

\* the ordered pairs of the prices given, and the ones that qualify
PricePairs ==
    { <<i, j>> \in (1..Len(arbitrage.regional_prices))
                      \X (1..Len(arbitrage.regional_prices)) : i # j }
PairOpportunity(pair) ==
    _calculate_opportunity(arbitrage.regional_prices[pair[1]],
                           arbitrage.regional_prices[pair[2]],
                           arbitrage.category)
Qualifies(pair) ==
    /\ arbitrage.regional_prices[pair[1]].in_stock
    /\ arbitrage.regional_prices[pair[1]].country
          # arbitrage.regional_prices[pair[2]].country
    /\ PairOpportunity(pair).margin_percent >= MIN_MARGIN_PERCENT * 10
InResult(pair) ==
    \E k \in 1..Len(arbitrage.result.arbitrage_opportunities) :
        /\ arbitrage.result.arbitrage_opportunities[k].buy_from
              = arbitrage.regional_prices[pair[1]]
        /\ arbitrage.result.arbitrage_opportunities[k].sell_to
              = arbitrage.regional_prices[pair[2]]

\* C26: the opportunities returned are at most 5, in descending order of
\* margin_percent, each of a pair whose buy side is in stock, whose
\* countries differ and whose margin_percent is at least 15; no qualifying
\* pair left out has a higher margin_percent than a returned one
C26_TopFiveByMargin ==
    Analyzed =>
        LET found == arbitrage.result.arbitrage_opportunities
        IN /\ Len(found) <= 5
           /\ \A k \in 1..(Len(found) - 1) :
                 found[k].margin_percent >= found[k + 1].margin_percent
           /\ \A k \in 1..Len(found) :
                 /\ found[k].buy_from.in_stock
                 /\ found[k].buy_from.country # found[k].sell_to.country
                 /\ found[k].margin_percent >= 150
                 /\ \E pair \in PricePairs :
                       found[k] = PairOpportunity(pair)
           /\ \A pair \in PricePairs :
                 (Qualifies(pair) /\ ~InResult(pair)) =>
                     \A k \in 1..Len(found) :
                         PairOpportunity(pair).margin_percent
                             <= found[k].margin_percent

C26_Witness ==
    /\ Analyzed
    /\ Len(arbitrage.result.arbitrage_opportunities) = 5
    /\ \E pair \in PricePairs : Qualifies(pair) /\ ~InResult(pair)
    /\ \E pair \in PricePairs :
          /\ ~arbitrage.regional_prices[pair[1]].in_stock
          /\ PairOpportunity(pair).is_profitable
    /\ \E pair \in PricePairs :
          /\ arbitrage.regional_prices[pair[1]].country
                = arbitrage.regional_prices[pair[2]].country
          /\ PairOpportunity(pair).is_profitable


\* ========================================================= the signal scores
\* Scores are in tenths, as round(score, 1) leaves them.  A quotient is kept
\* as numerator and denominator until the score is rounded.
outside_signals ==
    <<before_final, rank_trigger, subscriptions, extractor, arbitrage,
      discount>>

InitSignals == InitEarlier /\ NoLater

\* a DailyMetric: reviews, rank, in_stock, price in dollars; seller_count
\* and buybox_owner are the same every day
SeriesMetrics ==
    [reviews : {0, 1000}, rank : {50, 100}, in_stock : BOOLEAN,
     price : {10, 20}, seller_count : {3}, buybox_owner : {<<>>}]

minimum(a, b) == IF a < b THEN a ELSE b
maximum(a, b) == IF a > b THEN a ELSE b

\* round(n / d) for d > 0 and any n, ties to the even neighbour
rounded(n, d) ==
    IF n < 0 THEN 0 - round_half_even(0 - n, d) ELSE round_half_even(n, d)

\* min(n / d, limit) * d for d > 0
capped(n, d, limit) == minimum(n, limit * d)

\* the days between the first and the last metric of a series
day_diff(metrics) == Len(metrics) - 1

\* DemandCalculator.calculate.  The four weighted signals times 1000:
\* review velocity / 50 * 0.4, rank improvement / 0.5 * 0.3, stockout
\* frequency / 0.3 * 0.2 and price increase / 0.2 * 0.1
DemandCalculator_calculate(metrics) ==
    IF Len(metrics) < 2
    THEN 0
    ELSE LET oldest == metrics[1]
             newest == metrics[Len(metrics)]
             days == day_diff(metrics)
             out_of_stock == Cardinality({ i \in 1..Len(metrics) :
                                           ~metrics[i].in_stock })
             \* min(review_velocity / 50, 1) * 400, over days
             review == capped(8 * (newest.reviews - oldest.reviews),
                              days, 400)
             \* min(max(rank_improvement, 0) / 0.5, 1) * 300, over the rank
             rank == IF oldest.rank = 0
                     THEN 0
                     ELSE capped(maximum(600 * (oldest.rank - newest.rank),
                                         0),
                                 oldest.rank, 300)
             rank_den == IF oldest.rank = 0 THEN 1 ELSE oldest.rank
             \* min(stockout_freq / 0.3, 1) * 200, over 3 * len
             stockout == capped(2000 * out_of_stock, 3 * Len(metrics), 200)
             stockout_den == 3 * Len(metrics)
             \* min(max(price_increase, 0) / 0.2, 1) * 100, over the price
             price == IF oldest.price = 0
                      THEN 0
                      ELSE capped(maximum(500 * (newest.price
                                                     - oldest.price), 0),
                                  oldest.price, 100)
             price_den == IF oldest.price = 0 THEN 1 ELSE oldest.price
             den == days * rank_den * stockout_den * price_den
         IN rounded(review * (den \div days)
                        + rank * (den \div rank_den)
                        + stockout * (den \div stockout_den)
                        + price * (den \div price_den),
                    den)

\* CompetitionCalculator.calculate for metrics without a buybox owner: the
\* concentration is 0.5, the volatility 0.5 for a single metric and 0
\* otherwise
CompetitionCalculator_calculate(metrics) ==
    IF metrics = <<>>
    THEN 500
    ELSE LET total == Len(metrics) * metrics[1].seller_count
             \* min(avg_sellers / 50, 1) * 400, over len
             sellers == capped(8 * total, Len(metrics), 400)
             concentration_inverted == 150
             buybox_volatility == IF Len(metrics) < 2 THEN 150 ELSE 0
         IN rounded(sellers + (concentration_inverted + buybox_volatility)
                                  * Len(metrics),
                    Len(metrics))

\* TrendCalculator.calculate for fewer than 14 metrics
TrendCalculator_calculate(metrics) ==
    CASE Len(metrics) < 14 -> 0

\* RiskCalculator.calculate for fewer than 7 metrics
RiskCalculator_calculate(metrics) ==
    CASE Len(metrics) < 7 -> 0

\* IntelligenceEngine._calculate_overall_score, doubled to keep
\* (trend + 100) / 2 whole
_calculate_overall_score(demand, competition, trend, risk) ==
    rounded(70 * demand + 25 * (trend + 1000)
                + 40 * (1000 - competition) + 40 * (1000 - risk),
            200)

\* analyze_product on the series with one more day
analyze_series ==
    /\ Len(signals.metrics) < MaxSeries
    /\ \E metric \in SeriesMetrics :
         LET metrics == Append(signals.metrics, metric)
             demand == DemandCalculator_calculate(metrics)
             competition == CompetitionCalculator_calculate(metrics)
             trend == TrendCalculator_calculate(metrics)
             risk == RiskCalculator_calculate(metrics)
         IN signals' =
              [metrics |-> metrics, demand |-> demand,
               competition |-> competition, trend |-> trend, risk |-> risk,
               overall |-> _calculate_overall_score(demand, competition,
                                                    trend, risk)]
    /\ UNCHANGED outside_signals

NextSignals == analyze_series

SpecSignals == InitSignals /\ [][NextSignals]_vars

\* C27: for every series the Demand, Competition and Risk scores lie in
\* [0, 100], the Trend score in [-100, 100] and the Overall score in
\* [0, 100]
C27_ScoresInRange ==
    /\ signals.demand \in 0..1000
    /\ signals.competition \in 0..1000
    /\ signals.risk \in 0..1000
    /\ signals.trend \in (0 - 1000)..1000
    /\ signals.overall \in 0..1000


\* ============================================== the discount-cycle predictor
\* Prices are in dollars, dates are day numbers, discount_percent and
\* avg_cycle_days are in tenths, confidence is in ten-thousandths.
outside_discount ==
    <<before_final, rank_trigger, subscriptions, extractor, arbitrage,
      signals>>

DiscountPrices == {90, 95, 100}

\* the sum of the prices of the 7 metrics before the k-th
baseline_sum(metrics, k) ==
    metrics[k - 7].price + metrics[k - 6].price + metrics[k - 5].price
        + metrics[k - 4].price + metrics[k - 3].price + metrics[k - 2].price
        + metrics[k - 1].price

\* baseline > 0 and (baseline - current) / baseline >= MIN_DISCOUNT_THRESHOLD
\* with baseline = total / 7
is_discount(total, current) ==
    /\ total > 0
    /\ (total - 7 * current) * 100 >= 5 * total

DiscountEvent(metrics, k) ==
    [date |-> metrics[k].date,
     discounted_price |-> metrics[k].price,
     discount_percent |->
         rounded((baseline_sum(metrics, k) - 7 * metrics[k].price) * 1000,
                 baseline_sum(metrics, k))]

\* the loop of _detect_discounts from the k-th metric on, without the test
\* for the event before
RECURSIVE every_discount_from(_, _, _)
every_discount_from(metrics, k, discounts) ==
    IF k > Len(metrics)
    THEN discounts
    ELSE every_discount_from(metrics, k + 1,
            IF is_discount(baseline_sum(metrics, k), metrics[k].price)
            THEN Append(discounts, DiscountEvent(metrics, k))
            ELSE discounts)

\* the loop of _detect_discounts from the k-th metric on
RECURSIVE discounts_from(_, _, _)
discounts_from(metrics, k, discounts) ==
    IF k > Len(metrics)
    THEN discounts
    ELSE discounts_from(metrics, k + 1,
            IF /\ is_discount(baseline_sum(metrics, k), metrics[k].price)
               /\ \/ discounts = <<>>
                  \/ metrics[k].date - discounts[Len(discounts)].date > 3
            THEN Append(discounts, DiscountEvent(metrics, k))
            ELSE discounts)

detect_every_discount(metrics) ==
    IF Len(metrics) < 7 THEN <<>> ELSE every_discount_from(metrics, 8, <<>>)

_detect_discounts(metrics) ==
    IF Len(metrics) < 7 THEN <<>> ELSE discounts_from(metrics, 8, <<>>)

\* the gaps between consecutive events, in days
gaps(discounts) ==
    [i \in 1..(Len(discounts) - 1) |->
        discounts[i + 1].date - discounts[i].date]

RECURSIVE sum_of(_)
sum_of(numbers) ==
    IF numbers = <<>> THEN 0 ELSE Head(numbers) + sum_of(Tail(numbers))

\* min(stdev(g) / mean(g), 0.5) in hundredths, rounded down; 0 for one gap
spread_of(g) ==
    IF Len(g) < 2
    THEN 0
    ELSE LET n == Len(g)
             total == sum_of(g)
             squares == sum_of([i \in 1..n |->
                                   (n * g[i] - total) * (n * g[i] - total)])
             square == (squares * 10000) \div ((n - 1) * total * total)
         IN CHOOSE h \in 0..50 :
                /\ h * h <= square
                /\ h = 50 \/ (h + 1) * (h + 1) > square

\* _calculate_confidence
_calculate_confidence(num_events, g) ==
    LET base == IF num_events >= 5 THEN 70
                ELSE IF num_events >= 3 THEN 50 ELSE 30
        consistency_factor ==
            IF sum_of(g) > 0 THEN 100 - spread_of(g) ELSE 50
    IN minimum(base * consistency_factor + 2000, 9500)

\* predict
predict(metrics) ==
    IF Len(metrics) < 14
    THEN NoPrediction
    ELSE LET discounts == _detect_discounts(metrics)
         IN IF Len(discounts) < 2
            THEN [avg_cycle_days |-> <<>>, confidence |-> 1000,
                  historical_discounts |-> discounts]
            ELSE [avg_cycle_days |->
                      << rounded(10 * sum_of(gaps(discounts)),
                                 Len(discounts) - 1) >>,
                  confidence |->
                      _calculate_confidence(Len(discounts), gaps(discounts)),
                  historical_discounts |-> discounts]

\* n days at one price, the first of them being day first
Flat(first, n, price) ==
    [i \in 1..n |-> [date |-> first + i - 1, price |-> price]]

\* the histories a series begins with: none, a flat week, and a flat
\* fortnight followed by a day at $90 and five days at $100
Histories ==
    { <<>>,
      Flat(1, 7, 100),
      Flat(1, 14, 100) \o Flat(15, 1, 90) \o Flat(16, 5, 100) }

After(metrics, appended) ==
    [metrics |-> metrics, appended |-> appended,
     discounts |-> _detect_discounts(metrics),
     prediction |-> predict(metrics)]

InitDiscount ==
    /\ InitEarlier
    /\ store = IdleStore
    /\ scheduler = IdleScheduler
    /\ mcp_channel = IdleMcp
    /\ webhook = IdleWebhook
    /\ fx = IdleFx
    /\ trigger = IdleTrigger
    /\ rank_trigger = IdleRankTrigger
    /\ subscriptions = IdleSubscriptions
    /\ extractor = IdleExtractor
    /\ arbitrage = IdleArbitrage
    /\ signals = IdleSignals
    /\ \E history \in Histories : discount = After(history, 0)

\* the metric of the next day joins the series, and the predictor runs
predict_next_day ==
    /\ discount.appended < MaxAppended
    /\ \E price \in DiscountPrices :
         discount' =
             After(Append(discount.metrics,
                          [date |-> Len(discount.metrics) + 1,
                           price |-> price]),
                   discount.appended + 1)
    /\ UNCHANGED outside_discount

NextDiscount == predict_next_day

SpecDiscount == InitDiscount /\ [][NextDiscount]_vars

\* the k-th metric is at least 5% below the average of the 7 before it
BelowTrailingAverage(k) ==
    /\ k > 7
    /\ baseline_sum(discount.metrics, k) > 0
    /\ 20 * (baseline_sum(discount.metrics, k)
                 - 7 * discount.metrics[k].price)
          >= baseline_sum(discount.metrics, k)

EventDates ==
    { discount.discounts[i].date : i \in 1..Len(discount.discounts) }

\* the date of the last event recorded before day k, 0 if there is none
LastEventBefore(k) ==
    LET earlier == { d \in EventDates : d < k }
    IN IF earlier = {} THEN 0
       ELSE CHOOSE d \in earlier : \A e \in earlier : e <= d

\* 14 days at $100, then $90, five at $100, $90, five at $100, $90
ExampleC ==
    Flat(1, 14, 100) \o Flat(15, 1, 90) \o Flat(16, 5, 100)
        \o Flat(21, 1, 90) \o Flat(22, 5, 100) \o Flat(27, 1, 90)

\* C28: an event is recorded exactly on the days whose price is at least 5%
\* below the trailing 7-day average and that lie more than 3 days after the
\* event recorded before; consecutive events are more than 3 days apart;
\* the example series gives three events, avg_cycle_days 6 and a confidence
\* of at least 0.5
C28_DiscountEvents ==
    /\ \A k \in 1..Len(discount.metrics) :
          (discount.metrics[k].date \in EventDates) <=>
              /\ BelowTrailingAverage(k)
              /\ \/ LastEventBefore(discount.metrics[k].date) = 0
                 \/ discount.metrics[k].date
                       - LastEventBefore(discount.metrics[k].date) > 3
    /\ \A i \in 1..(Len(discount.discounts) - 1) :
          discount.discounts[i + 1].date - discount.discounts[i].date > 3
    /\ discount.metrics = ExampleC =>
          /\ Len(discount.prediction.historical_discounts) = 3
          /\ discount.prediction.avg_cycle_days = <<60>>
          /\ discount.prediction.confidence >= 5000

C28_Witness ==
    /\ discount.metrics = ExampleC
    /\ Len(discount.discounts) = 3
    /\ discount.prediction.historical_discounts = discount.discounts


====
